---- MODULE Spec2Model ----
(***************************************************************************)
(* Object lifetime and concurrency bridge of sbz-switch.                   *)
(*                                                                         *)
(*   SpecCom      ComObject / ComScope on one apartment thread             *)
(*                (src/src/com.rs, src/src/com/mod.rs)                     *)
(*   SpecCallback the hand-built callback COM object, called from several  *)
(*                threads (src/src/ctsndcr.rs, src/src/media/mod.rs)       *)
(*   SpecBridge   registration, delivery, polling and disposal of the      *)
(*                notification bridges (src/src/soundcore/event.rs,        *)
(*                src/src/media/event.rs, src/src/soundcore.rs)            *)
(*   SpecIter     the blocking iterator: poll, park, notify                *)
(*                (src/src/com/event.rs, src/src/soundcore/event.rs,       *)
(*                src/src/soundcore.rs)                                    *)
(*   SpecIterFair the same steps under fair scheduling of both threads     *)
(*   SpecCursor   feature and parameter cursors                            *)
(*                (src/src/soundcore/feature_iterator.rs,                  *)
(*                src/src/soundcore/parameter_iterator.rs)                 *)
(*   SpecParam    SoundCoreParameter::get / set and the wire value         *)
(*                (src/src/soundcore/parameter.rs)                         *)
(*   SpecSet      set(device, configuration, mute): the mute bracket       *)
(*                around the configuration writes (src/src/lib.rs)         *)
(*   SpecRoot     the references SoundCore, its cursors, features and      *)
(*                parameters hold on the root ISoundCore object            *)
(*                (src/src/soundcore/feature.rs, feature_iterator.rs,      *)
(*                parameter.rs, parameter_iterator.rs, core.rs)            *)
(*   SpecCoerce   coerce_soundcore, then set (src/src/lib.rs)              *)
(*   SpecMerge    the merged SoundCore-and-volume stream (src/src/lib.rs)  *)
(***************************************************************************)
EXTENDS Integers, Sequences, FiniteSets, TLC

VARIABLES
    \* ---- ComObject / ComScope (one thread, one underlying object) ----
    comVersion,   \* "winapi" = src/src/com.rs, "windows" = src/src/com/mod.rs
    taken,        \* "no" | "ok" | "failed": outcome of ComObject::take
    objRefs,      \* reference count inside the foreign object
    objFinal,     \* how often a Release brought that count to zero
    hLive,        \* the live ComObject handles
    hTok,         \* scope tokens owned by each handle (field _scope)
    scopes,       \* live ComScope values that belong to no handle
    coInitOk,     \* successful CoInitializeEx calls
    coUninit,     \* CoUninitialize calls
    nClone,       \* completed clone() calls
    nDrop,        \* completed drops of handles
    relLive,      \* live handles other than the dropped one at the zero Release
    comPanicked,  \* an unwrap() panicked: the thread is unwinding
    lastClone,    \* the last clone() call: its CoInitializeEx outcome, the AddRef
                  \* calls it issued and how it ended
    lastDrop,     \* the last drop of a handle: its steps in order and how many
                  \* initializations of the apartment were open at its Release
    \* ---- the callback object (Callback<C> / AudioEndpointVolumeCallback<C>) ----
    cbKind,       \* "ICallback" (ctsndcr.rs) | "IAudioEndpointVolumeCallback" (media/mod.rs)
    cbSink,       \* the wrapped closure: "channel" | "w32sink" | "any"
    lpVtbl,       \* field lpVtbl / lp_vtbl: "self" (the block's own vtbl field) |
                  \* "null" | "freed" (the block is gone)
    cbAlloc,      \* the heap block is allocated
    cbRefs,       \* field refs: AtomicUsize
    cbSinkDrops,  \* runs of the sink's destructor (drop_in_place)
    cbDeallocs,   \* alloc::dealloc calls on the block
    cbRx,         \* the receiving half of the sink's channel is alive
    held,         \* references each thread owns
    tpc,          \* per thread: "idle" | "free" (Release saw zero, not yet freed)
    cbRet,        \* the last completed call and what it returned
    proc,         \* "running" | "aborted" | "unwound" (a panic left an extern fn)
    \* ---- the notification bridge ----
    brKind,       \* "SoundCoreEvents" (soundcore/event.rs) | "VolumeEvents"
                  \* (media/event.rs) | "SoundCoreOld" (soundcore.rs)
    brPhase,      \* "init" | "alive" | "failed" | "panicked" | "dropped"
    brErr,        \* the code of the error new() / events() returned, else S_OK
    regRet,       \* what the driver's register call returned
    reg,          \* driver side: "none" | "registered" | "unregistered"
    nRegister,    \* register calls issued
    nUnreg,       \* unregister calls issued
    drvRef,       \* the driver owns a reference to the callback
    ownRef,       \* the bridge owns a reference to the callback (VolumeEvents.callback)
    srcHeld,      \* the notification-source handle is owned (not yet released)
    chan,         \* the delivery channel (mpsc / VecDeque next)
    accepted,     \* deliveries the callback's sink put into the channel, in order
    returned,     \* items next() returned, in order
    nDeliver,     \* domain-method calls made by the driver
    cpc,          \* consumer: "idle" | "polling" | "parked"
    taskReg,      \* AtomicTask holds the consumer's task (task.register())
    notified,     \* the unpark event is signalled
    closedRead,   \* SoundCoreEventIteratorState.closed_read
    closedWrite,  \* SoundCoreEventIteratorState.closed_write
    lastNext,     \* how the last next() ended: "none" | "item" | "end" | "waiterr" | "panic"
    dpc,          \* driver thread inside the sink closure: "idle" | "notify" (sent,
                  \* tx_task.notify() still to come)
    drvCalls,     \* the completed domain-method calls, in order
    dropRet,      \* the bridge's Drop: what unregister returned, whether it panicked,
                  \* how much had been accepted and returned by then
    \* ---- the blocking iterator over a polled stream ----
    itKind,       \* "ComEventIterator" (com/event.rs) | "SoundCoreEventIterator"
                  \* (soundcore/event.rs) | "SoundCoreOld" (soundcore.rs)
    events,       \* what the stream has buffered (mpsc channel / VecDeque next)
    senderGone,   \* the sending half is dropped (Disconnected / closed_write)
    task,         \* AtomicTask holds the consumer's task
    ready,        \* length of ComUnparkState.ready (com/event.rs)
    ready_event,  \* the unpark event is signalled (ready_event / ready_read)
    ipc,          \* consumer: "idle" | "poll" | "recv" | "park" | "wait" | "woken" | "panicked"
    ppc,          \* producer: "idle" | "notify" (sent, notify still to come)
    nSent,        \* items the producer has sent
    nWaitErr,     \* failed waits so far
    callAvail,    \* what was available when the running next() was called
    firstPoll,    \* result of the first poll of the running next(): "none" | "ready" | "notready"
    lastPoll,     \* result of the latest poll of the running next()
    nParks,       \* park() calls / wait rounds entered by the running next()
    nWaits,       \* CoWaitForMultipleObjects calls that returned in the running next()
    nFast,        \* park() calls of the running next() answered from the ready queue
    sentAfter,    \* first item sent after the first poll of the running next() said not ready
    itRet,        \* what the last completed next() returned, with its history
    \* ---- a feature / parameter cursor over the driver's enumeration ----
    curKind,      \* "feature" (feature_iterator.rs) | "parameter" (parameter_iterator.rs)
    index,        \* field index of the cursor
    probes,       \* the enumerate calls issued, in order, with the driver's answers
    results,      \* what the next() calls returned, in order
    rootRefs,     \* references the cursor and its live items hold on the root object
    curLive,      \* the cursor is not yet dropped
    \* ---- one SoundCoreParameter and the driver's value for it ----
    parKind,      \* field kind (param_type) of the parameter
    parAttr,      \* field attributes (param_attributes); bit 0 is read-only
    drvValue,     \* the ParamValue the driver holds for the parameter
    setArg,       \* the value of the last set() the driver accepted, if any
    getCalls,     \* GetParamValue calls issued
    setCalls,     \* SetParamValue calls issued
    parRet,       \* the last get() / set() call and how it ended
    parPanicked,  \* a set() panicked: the thread is unwinding
    \* ---- set(device_id, configuration, mute) of lib.rs ----
    setMute,      \* the `mute` argument
    setCfg,       \* the configuration: creative table present, how many of its
                  \* parameters the device has, endpoint volume present
    devMuted,     \* the endpoint's mute state inside the driver
    wasMuted,     \* that state when set() was entered
    muteUnmute,   \* the local mute_unmute
    pending,      \* configured parameters not written yet
    applied,      \* what set_internal returned: "none" | "Ok" | "Err"
    setLog,       \* the endpoint and parameter calls issued so far, in order
    setResult,    \* what set() returned: "none" | "Ok" | "Err" | "panic"
    spc,          \* position inside set()
    \* ---- owners of the root ISoundCore object ----
    scLive,       \* the SoundCore wrapper (its ComObject handle) is alive
    nFeatCur,     \* live SoundCoreFeatureIterator values
    nFeat,        \* live SoundCoreFeature values
    nParCur,      \* live SoundCoreParameterIterator values
    nPar,         \* live SoundCoreParameter values
    rootCount,    \* reference count inside the root object
    rootFinal,    \* how often a Release brought that count to zero
    rootPanics,   \* constructions that panicked on a description that is not UTF-8
    \* ---- one configured value on its way through coerce_soundcore to set() ----
    coValue,      \* the value the configuration table holds
    coKind,       \* field kind of the parameter it is meant for
    coRet,        \* what coerce_soundcore returned, once called
    coSet,        \* what parameter.set was then called with, once called
    \* ---- SoundCoreAndVolumeEvents of lib.rs and the iterator over it ----
    mSc,          \* items the SoundCore stream has ready, oldest first
    mVol,         \* items the volume stream has ready, oldest first
    mScSent,      \* items the SoundCore stream was given so far
    mVolSent,     \* items the volume stream was given so far
    mScEnded,     \* the SoundCore stream's sender is gone
    mVolEnded,    \* the volume stream's sender is gone
    mScFused,     \* Fuse has seen the SoundCore stream end
    mVolFused,    \* Fuse has seen the volume stream end
    mOut,         \* the items next() returned so far, in order
    mLast         \* the last poll_next: what was ready, what it returned

comVars == <<comVersion, taken, objRefs, objFinal, hLive, hTok, scopes,
             coInitOk, coUninit, nClone, nDrop, relLive, comPanicked, lastClone,
             lastDrop>>

cbVars == <<cbKind, cbSink, lpVtbl, cbAlloc, cbRefs, cbSinkDrops, cbDeallocs, cbRx,
            held, tpc, cbRet, proc>>

brVars == <<brKind, brPhase, brErr, regRet, reg, nRegister, nUnreg, drvRef, ownRef,
            srcHeld, chan, accepted, returned, nDeliver, cpc, taskReg, notified,
            closedRead, closedWrite, lastNext, dpc, drvCalls, dropRet>>

\* the driver-call and disposal records of the bridge
brAux == <<dpc, drvCalls, dropRet>>

itVars == <<itKind, events, senderGone, task, ready, ready_event, ipc, ppc, nSent,
            nWaitErr, callAvail, firstPoll, lastPoll, nParks, nWaits, nFast,
            sentAfter, itRet>>

curVars == <<curKind, index, probes, results, rootRefs, curLive>>

parVars == <<parKind, parAttr, drvValue, setArg, getCalls, setCalls, parRet, parPanicked>>

setVars == <<setMute, setCfg, devMuted, wasMuted, muteUnmute, pending, applied,
             setLog, setResult, spc>>

rootVars == <<scLive, nFeatCur, nFeat, nParCur, nPar, rootCount, rootFinal, rootPanics>>

coVars == <<coValue, coKind, coRet, coSet>>

mVars == <<mSc, mVol, mScSent, mVolSent, mScEnded, mVolEnded, mScFused, mVolFused,
           mOut, mLast>>

extVars == <<setVars, rootVars, coVars, mVars>>

restVars == <<itVars, curVars, parVars, extVars>>

vars == <<comVars, cbVars, brVars, restVars>>

notCom == <<cbVars, brVars, restVars>>
notCb == <<comVars, brVars, restVars>>
notBr == <<comVars, restVars>>

----------------------------------------------------------------------------
\* HRESULT values used by the code (winerror.h)
S_OK == 0
E_NOINTERFACE == -2147467262
E_ABORT == -2147467260
E_FAIL == -2147467259
E_INVALIDARG == -2147024809
E_ACCESSDENIED == -2147024891

\* hresult::check: a negative HRESULT is an error, anything else a success
check(result) == IF result < 0 THEN [ok |-> FALSE, code |-> result]
                               ELSE [ok |-> TRUE, code |-> result]

----------------------------------------------------------------------------
\* Bounds of the callback-object model
NThreads == 2
MaxRefs == 3

Threads == 1..NThreads

\* what a pointer handed to a callback method may point at
Pointers == {"obj", "null", "nullvtbl", "foreign"}

\* interface identities a caller may ask QueryInterface for
IIDs == {"IUnknown", "ICallback", "IAudioEndpointVolumeCallback", "IOther"}

NoCall == [op |-> "none"]

\* `value.lpVtbl = &mut value.vtbl`: the constructors point the block's table
\* pointer at its own vtbl field before handing the block out
TableLeftNull(kind) == "null"
TableAfterNew(kind) == "self"

\* the object as ICallback::new / AudioEndpointVolumeCallback::wrap leaves it:
\* refs = 1, owned by the creating thread (thread 1)
CbFresh ==
    /\ lpVtbl = TableAfterNew(cbKind)
    /\ cbAlloc = TRUE
    /\ cbRefs = 1
    /\ cbSinkDrops = 0
    /\ cbDeallocs = 0
    /\ cbRx = TRUE
    /\ held = [t \in Threads |-> IF t = 1 THEN 1 ELSE 0]
    /\ tpc = [t \in Threads |-> "idle"]
    /\ cbRet = NoCall
    /\ proc = "running"

CbInit ==
    /\ cbKind \in {"ICallback", "IAudioEndpointVolumeCallback"}
    /\ cbSink \in {"channel", "w32sink", "any"}
    /\ CbFresh

\* the callback variables, at rest in the specifications about other parts
CbParked == cbKind = "ICallback" /\ cbSink = "channel" /\ CbFresh

\* the bridge's Drop has not run
NoDrop == [done |-> FALSE, unreg |-> 0, panicked |-> FALSE, accepted |-> 0,
           returned |-> 0, buffered |-> 0, steps |-> <<>>]

\* the bridge before SoundCoreEvents::new / VolumeEvents::new / SoundCore::events
BrFresh ==
    /\ brPhase = "init"
    /\ brErr = S_OK
    /\ regRet = S_OK
    /\ reg = "none"
    /\ nRegister = 0
    /\ nUnreg = 0
    /\ drvRef = FALSE
    /\ ownRef = FALSE
    /\ srcHeld = TRUE       \* the caller passes in / has queried the source handle
    /\ chan = <<>>
    /\ accepted = <<>>
    /\ returned = <<>>
    /\ nDeliver = 0
    /\ cpc = "idle"
    /\ taskReg = FALSE
    /\ notified = FALSE
    /\ closedRead = FALSE
    /\ closedWrite = FALSE
    /\ lastNext = "none"
    /\ dpc = "idle"
    /\ drvCalls = <<>>
    /\ dropRet = NoDrop

\* the bridge variables, at rest in the specifications about other parts
BrParked == brKind = "SoundCoreEvents" /\ BrFresh

\* nothing available / nothing returned yet
NoItem == [kind |-> "none", id |-> 0]

NoReturn == [kind |-> "none", id |-> 0, avail |-> NoItem, firstPoll |-> "none",
             parks |-> 0, waits |-> 0, fast |-> 0, sentAfter |-> 0]

\* the blocking iterator as ComEventIterator::new / SoundCoreEventIterator::new /
\* event_iterator leave it: nothing buffered, no task registered, ready queue
\* empty, the event created non-signalled
ItFresh ==
    /\ events = <<>>
    /\ senderGone = FALSE
    /\ task = FALSE
    /\ ready = 0
    /\ ready_event = FALSE
    /\ ipc = "idle"
    /\ ppc = "idle"
    /\ nSent = 0
    /\ nWaitErr = 0
    /\ callAvail = NoItem
    /\ firstPoll = "none"
    /\ lastPoll = "none"
    /\ nParks = 0
    /\ nWaits = 0
    /\ nFast = 0
    /\ sentAfter = 0
    /\ itRet = NoReturn

\* the iterator variables, at rest in the specifications about other parts
ItParked == itKind = "ComEventIterator" /\ ItFresh

\* the cursor as SoundCoreFeatureIterator::new / SoundCoreParameterIterator::new
\* leave it: index 0, one reference taken on the root object
CurFresh ==
    /\ index = 0
    /\ probes = <<>>
    /\ results = <<>>
    /\ rootRefs = 1
    /\ curLive = TRUE

\* the cursor variables, at rest in the specifications about other parts
CurParked == curKind = "feature" /\ CurFresh

\* no value: SoundCoreParamValue::None
NoValue == [type |-> "None", v |-> 0]

\* no get() / set() call made yet
NoParCall == [op |-> "none", arg |-> NoValue, hr |-> 0, calls |-> 0,
              result |-> "none", value |-> NoValue, code |-> 0]

\* a parameter on which nothing has been called yet
ParFresh ==
    /\ setArg = NoValue
    /\ getCalls = 0
    /\ setCalls = 0
    /\ parRet = NoParCall
    /\ parPanicked = FALSE

\* the parameter variables, at rest in the specifications about other parts
ParParked ==
    /\ parKind = 0
    /\ parAttr = 0
    /\ drvValue = [kind |-> 0, value |-> [hi |-> 0, lo |-> 0]]
    /\ ParFresh

\* everything outside the ComObject, callback and bridge parts, at rest
\* set() entered, nothing called yet
SetFresh ==
    /\ muteUnmute = FALSE
    /\ applied = "none"
    /\ setLog = <<>>
    /\ setResult = "none"
    /\ spc = "endpoint"
    /\ wasMuted = devMuted
    /\ pending = setCfg.params

SetParked ==
    /\ setMute = FALSE
    /\ setCfg = [creative |-> FALSE, params |-> 0, volume |-> FALSE]
    /\ devMuted = FALSE
    /\ SetFresh

\* a SoundCore just built: it alone owns the root object
RootFresh ==
    /\ scLive = TRUE
    /\ nFeatCur = 0
    /\ nFeat = 0
    /\ nParCur = 0
    /\ nPar = 0
    /\ rootCount = 1
    /\ rootFinal = 0
    /\ rootPanics = 0

RootParked == RootFresh

\* no coercion made yet
NoCoerce == [ok |-> FALSE, done |-> FALSE, value |-> NoValue]

\* parameter.set not called yet
NoSetCall == [called |-> FALSE, panicked |-> FALSE,
              wire |-> [kind |-> 0, value |-> [hi |-> 0, lo |-> 0]]]

\* coerce_soundcore not called yet
CoFresh ==
    /\ coRet = NoCoerce
    /\ coSet = NoSetCall

CoParked == coValue = NoValue /\ coKind = 0 /\ CoFresh

\* no poll_next made yet
NoPoll == [scReady |-> FALSE, volReady |-> FALSE, scHead |-> 0, ret |-> "none",
           src |-> "none", id |-> 0]

\* the merged stream as event_stream / with_volume build it: nothing delivered,
\* both senders alive
MergeFresh ==
    /\ mSc = <<>>
    /\ mVol = <<>>
    /\ mScSent = 0
    /\ mVolSent = 0
    /\ mScEnded = FALSE
    /\ mVolEnded = FALSE
    /\ mScFused = FALSE
    /\ mVolFused = FALSE
    /\ mOut = <<>>
    /\ mLast = NoPoll

MergeParked == MergeFresh

ExtParked == SetParked /\ RootParked /\ CoParked /\ MergeParked

RestParked == ItParked /\ CurParked /\ ParParked /\ ExtParked

----------------------------------------------------------------------------
\* Bounds of the ComObject model
MaxHandles == 3
MaxScopes == 2
MaxClones == 3
MaxInits == 5

HandleIds == 1..MaxHandles

\* IUnknown::AddRef / Release of the foreign object, as issued by the handle
ObjAddRefSkipped(r) == r
ObjAddRef(r) == r + 1

ObjRelease(r) == r - 1

\* initialize_com: CoInitializeEx succeeded (ok) or returned a failure
InitializeCom(ok, n) == IF ok THEN n + 1 ELSE n

\* ComScope::new / ComScope::begin: `initialize_com()?` hands out a scope only
\* when CoInitializeEx succeeded
ScopeAcquiredAlways(ok) == TRUE
ScopeAcquired(ok) == ok

\* uninitialize_com, run by Drop for ComScope
UninitializeComSkipped(n) == n
UninitializeCom(n) == n + 1

\* the scope tokens a freshly built handle owns: its one _scope field
HandleScope == 1

\* the disposal of a handle: com.rs Releases in Drop::drop, then the fields
\* (inner, _scope) go; com/mod.rs has no Drop, its fields go in declaration
\* order: inner (the interface Releases itself), then _scope
HandleDropStepsScopeFirst(version) == <<"drop scope", "Release">>
HandleDropSteps(version) == <<"Release", "drop scope">>

\* step a comes before step b in a disposal
Before(steps, a, b) ==
    \E i, j \in 1..Len(steps) : i < j /\ steps[i] = a /\ steps[j] = b

\* no handle dropped yet
NoHandleDrop == [done |-> FALSE, steps |-> <<>>, openAtRelease |-> 0]

\* no clone() call made yet
NoClone == [result |-> "none", initOk |-> TRUE, addRefs |-> 0]

ComFresh ==
    /\ taken = "no"
    /\ objRefs = 1          \* the pointer handed to take is already AddRef'd
    /\ objFinal = 0
    /\ hLive = {}
    /\ hTok = [h \in HandleIds |-> 0]
    /\ scopes = 0
    /\ coInitOk = 0
    /\ coUninit = 0
    /\ nClone = 0
    /\ nDrop = 0
    /\ relLive = 0
    /\ comPanicked = FALSE
    /\ lastClone = NoClone
    /\ lastDrop = NoHandleDrop

ComInit == comVersion \in {"winapi", "windows"} /\ ComFresh

\* the ComObject variables, at rest in the specifications about other parts
ComParked == comVersion = "winapi" /\ ComFresh

\* ComScope::new / ComScope::begin outside of a handle (for_device, DeviceEnumerator::new)
ComScopeBegin(ok) ==
    /\ ~comPanicked
    /\ scopes < MaxScopes
    /\ coInitOk < MaxInits
    /\ coInitOk' = InitializeCom(ok, coInitOk)
    /\ scopes' = IF ScopeAcquired(ok) THEN scopes + 1 ELSE scopes
    /\ UNCHANGED <<comVersion, taken, objRefs, objFinal, hLive, hTok, coUninit,
                   nClone, nDrop, relLive, comPanicked, lastClone, lastDrop,
                   notCom>>

\* Drop for ComScope
ComScopeDrop ==
    /\ scopes > 0
    /\ scopes' = scopes - 1
    /\ coUninit' = UninitializeCom(coUninit)
    /\ UNCHANGED <<comVersion, taken, objRefs, objFinal, hLive, hTok, coInitOk,
                   nClone, nDrop, relLive, comPanicked, lastClone, lastDrop,
                   notCom>>

\* ComObject::take(inner): on a failed CoInitializeEx the unwrap() panics; the
\* winapi version then leaks the raw pointer, the windows version drops `inner`
ComObjectTake(ok) ==
    /\ ~comPanicked
    /\ taken = "no"
    /\ coInitOk < MaxInits
    /\ coInitOk' = InitializeCom(ok, coInitOk)
    /\ IF ScopeAcquired(ok)
       THEN /\ taken' = "ok"
            /\ hLive' = {1}
            /\ hTok' = [hTok EXCEPT ![1] = HandleScope]
            /\ UNCHANGED <<objRefs, objFinal, comPanicked>>
       ELSE /\ taken' = "failed"
            /\ comPanicked' = TRUE
            /\ objRefs' = IF comVersion = "windows" THEN ObjRelease(objRefs) ELSE objRefs
            /\ objFinal' = IF comVersion = "windows" /\ ObjRelease(objRefs) = 0
                           THEN objFinal + 1 ELSE objFinal
            /\ UNCHANGED <<hLive, hTok>>
    /\ UNCHANGED <<comVersion, scopes, coUninit, nClone, nDrop, relLive, lastClone, lastDrop,
                   notCom>>

\* Clone for ComObject: the scope is acquired first, then AddRef
ComObjectClone(h, ok) ==
    /\ ~comPanicked
    /\ h \in hLive
    /\ nClone < MaxClones
    /\ coInitOk < MaxInits
    /\ hLive # HandleIds
    /\ coInitOk' = InitializeCom(ok, coInitOk)
    /\ IF ScopeAcquired(ok)
       THEN LET n == CHOOSE x \in HandleIds \ hLive : \A y \in HandleIds \ hLive : x <= y
            IN /\ objRefs' = ObjAddRef(objRefs)
               /\ hLive' = hLive \cup {n}
               /\ hTok' = [hTok EXCEPT ![n] = HandleScope]
               /\ nClone' = nClone + 1
               /\ lastClone' = [result |-> "handle", initOk |-> ok, addRefs |-> 1]
               /\ UNCHANGED comPanicked
       ELSE /\ comPanicked' = TRUE
            /\ lastClone' = [result |-> "panic", initOk |-> ok, addRefs |-> 0]
            /\ UNCHANGED <<objRefs, hLive, hTok, nClone>>
    /\ UNCHANGED <<comVersion, taken, objFinal, scopes, coUninit, nDrop, relLive, lastDrop,
                   notCom>>

\* Drop for ComObject: Release, then the _scope field is dropped
ComObjectDrop(h) ==
    /\ h \in hLive
    /\ objRefs' = ObjRelease(objRefs)
    /\ objFinal' = IF ObjRelease(objRefs) = 0 THEN objFinal + 1 ELSE objFinal
    /\ relLive' = IF ObjRelease(objRefs) = 0 THEN Cardinality(hLive \ {h}) ELSE relLive
    /\ hLive' = hLive \ {h}
    /\ hTok' = [hTok EXCEPT ![h] = 0]
    /\ coUninit' = IF hTok[h] > 0 THEN UninitializeCom(coUninit) ELSE coUninit
    /\ nDrop' = nDrop + 1
    /\ lastDrop' = [done |-> TRUE, steps |-> HandleDropSteps(comVersion),
                    openAtRelease |-> (coInitOk - coUninit)
                        - (IF Before(HandleDropSteps(comVersion), "Release", "drop scope")
                           THEN 0 ELSE hTok[h])]
    /\ UNCHANGED <<comVersion, taken, scopes, coInitOk, nClone, comPanicked, lastClone,
                   notCom>>

ComNext ==
    \/ \E ok \in BOOLEAN : ComScopeBegin(ok)
    \/ ComScopeDrop
    \/ \E ok \in BOOLEAN : ComObjectTake(ok)
    \/ \E h \in HandleIds, ok \in BOOLEAN : ComObjectClone(h, ok)
    \/ \E h \in HandleIds : ComObjectDrop(h)

InitCom == ComInit /\ CbParked /\ BrParked /\ RestParked

SpecCom == InitCom /\ [][ComNext]_vars

----------------------------------------------------------------------------
\* C1: while the take succeeded, the object's count equals 1 + clones - drops
\* and equals the number of live handles; the Release that reaches zero is
\* issued exactly once, by the drop of the last handle, with no other handle alive.
C1_RefCountMatchesHandles ==
    taken = "ok" =>
        /\ objRefs = 1 + nClone - nDrop
        /\ objRefs = Cardinality(hLive)
        /\ objFinal = (IF hLive = {} THEN 1 ELSE 0)
        /\ relLive = 0

C1_Witness ==
    /\ taken = "ok"
    /\ nClone >= 2
    /\ nDrop = nClone + 1
    /\ objFinal = 1

\* C2: one token per live handle, uninits never exceed successful inits, they
\* are equal once nothing is alive, and the apartment is initialized while a
\* handle is alive.
C2_ScopeBalance ==
    /\ \A h \in hLive : hTok[h] = 1
    /\ coUninit <= coInitOk
    /\ (hLive = {} /\ scopes = 0) => coUninit = coInitOk
    /\ hLive # {} => coInitOk - coUninit >= 1

C2_Witness ==
    /\ Cardinality(hLive) = 2
    /\ scopes = 1
    /\ coUninit >= 2
    /\ coInitOk - coUninit = 3


\* C21: every clone() call, whatever CoInitializeEx returned to it, ended by
\* returning a new handle after exactly one AddRef, and none panicked.
C21_CloneNeverFails ==
    lastClone.result # "none" =>
        /\ lastClone.result = "handle"
        /\ lastClone.addRefs = 1

\* C22: a take whose CoInitializeEx failed leaves no handle behind (none alive,
\* none cloned, the unwrap panicked), and every scope token alive (one per live
\* handle, one per free-standing scope) stands for a successful CoInitializeEx
\* that was not uninitialized yet, so no CoUninitialize answers a failed one.
C22_FailedTakeNoHandle ==
    /\ taken = "failed" =>
          /\ hLive = {}
          /\ \A h \in HandleIds : hTok[h] = 0
          /\ nClone = 0 /\ nDrop = 0
          /\ comPanicked
    /\ Cardinality(hLive) + scopes = coInitOk - coUninit

C22_Witness ==
    /\ taken = "failed"
    /\ coInitOk = 1
    /\ coUninit = 1
    /\ scopes = 0


\* C32: in every drop of a handle the Release comes before the handle's scope
\* token is dropped, so the apartment is still initialized (by that token at
\* least) when the object's Release runs.
C32_ReleaseBeforeUninit ==
    lastDrop.done =>
        /\ Before(lastDrop.steps, "Release", "drop scope")
        /\ ~Before(lastDrop.steps, "drop scope", "Release")
        /\ lastDrop.openAtRelease >= 1

\* the last handle on the thread: its token was the only one left at the Release
C32_Witness ==
    /\ lastDrop.done
    /\ lastDrop.openAtRelease = 1
    /\ hLive = {}
    /\ objFinal = 1
    /\ coUninit = coInitOk
    /\ nClone >= 1

----------------------------------------------------------------------------
\* The callback object: QueryInterface / AddRef / Release / domain method

\* (*this).lpVtbl: the table a pointer leads to. Only a table built by the
\* constructors ("self") starts with this implementation's QueryInterface.
TableOf(p) ==
    CASE p = "obj" -> lpVtbl
      [] p = "nullvtbl" -> "null"
      [] p = "foreign" -> "other"
      [] OTHER -> "null"

\* validate: null pointer, null table pointer, or a first table entry that is
\* not this implementation's callback_query_interface -> Err(E_INVALIDARG)
validateAlways(p) == [ok |-> TRUE, code |-> S_OK]
validate(p) ==
    IF p = "null" \/ TableOf(p) = "null" \/ TableOf(p) # "self"
    THEN [ok |-> FALSE, code |-> E_INVALIDARG]
    ELSE [ok |-> TRUE, code |-> S_OK]

\* uncheck: Ok(result) -> result, Err(Win32Error{code}) -> code
uncheckAborts(res) == IF res.ok THEN res.code ELSE E_ABORT
uncheck(res) == IF res.ok THEN res.code ELSE res.code

\* the identity the object answers to besides IUnknown
OwnIID(kind) == kind

\* IsEqualIID(iid, IUnknown) || IsEqualIID(iid, <own interface>)
IIDMatchesAny(kind, iid) == TRUE
IIDMatches(kind, iid) == iid = "IUnknown" \/ iid = OwnIID(kind)

\* refs.fetch_add(1) / refs.fetch_sub(1): the value stored
FetchAdd(r) == r + 1
FetchSub(r) == r - 1

\* callback_release frees when the post-decrement count is zero
ReleaseFreesEarly(count) == count <= 1
ReleaseFrees(count) == count = 0

\* a thread may use the object's pointer only while it owns a reference
MayCall(t, p) ==
    /\ proc = "running"
    /\ tpc[t] = "idle"
    /\ p = "obj" => held[t] > 0

\* callback_add_ref
callback_add_ref(t, p) ==
    /\ MayCall(t, p)
    /\ cbRefs < MaxRefs
    /\ IF validate(p).ok /\ p = "obj"
       THEN /\ cbRefs' = FetchAdd(cbRefs)
            /\ held' = [held EXCEPT ![t] = @ + 1]
            /\ cbRet' = [op |-> "AddRef", ptr |-> p, pre |-> cbRefs,
                         ret |-> FetchAdd(cbRefs)]
       ELSE /\ cbRet' = [op |-> "AddRef", ptr |-> p, pre |-> cbRefs, ret |-> 1]
            /\ UNCHANGED <<cbRefs, held>>
    /\ UNCHANGED <<cbKind, cbSink, lpVtbl, cbAlloc, cbSinkDrops, cbDeallocs, cbRx, tpc, proc>>
    /\ UNCHANGED notCb

\* callback_release, up to and including the fetch_sub
callback_release(t, p) ==
    /\ MayCall(t, p)
    /\ IF validate(p).ok /\ p = "obj"
       THEN /\ cbRefs' = FetchSub(cbRefs)
            /\ held' = [held EXCEPT ![t] = @ - 1]
            /\ IF ReleaseFrees(FetchSub(cbRefs))
               THEN /\ tpc' = [tpc EXCEPT ![t] = "free"]
                    /\ UNCHANGED cbRet
               ELSE /\ cbRet' = [op |-> "Release", ptr |-> p, pre |-> cbRefs,
                                 ret |-> FetchSub(cbRefs)]
                    /\ UNCHANGED tpc
       ELSE /\ cbRet' = [op |-> "Release", ptr |-> p, pre |-> cbRefs, ret |-> 1]
            /\ UNCHANGED <<cbRefs, held, tpc>>
    /\ UNCHANGED <<cbKind, cbSink, lpVtbl, cbAlloc, cbSinkDrops, cbDeallocs, cbRx, proc>>
    /\ UNCHANGED notCb

\* callback_release, count == 0: fence, drop_in_place, dealloc, return 0.
\* Dropping the sink drops the channel's sender.
callback_release_free(t) ==
    /\ proc = "running"
    /\ tpc[t] = "free"
    /\ cbSinkDrops' = cbSinkDrops + 1
    /\ cbDeallocs' = cbDeallocs + 1
    /\ cbAlloc' = FALSE
    /\ lpVtbl' = "freed"
    /\ tpc' = [tpc EXCEPT ![t] = "idle"]
    /\ cbRet' = [op |-> "Release", ptr |-> "obj", pre |-> 1, ret |-> 0]
    /\ UNCHANGED <<cbKind, cbSink, cbRefs, cbRx, held, proc>>
    /\ UNCHANGED notCb

\* callback_query_interface; the output slot holds garbage before the call
callback_query_interface(t, p, iid) ==
    /\ MayCall(t, p)
    /\ cbRefs < MaxRefs
    /\ LET v == validate(p)
           hit == v.ok /\ IIDMatches(cbKind, iid)
           res == IF ~v.ok THEN v
                  ELSE IF hit THEN [ok |-> TRUE, code |-> S_OK]
                  ELSE [ok |-> FALSE, code |-> E_NOINTERFACE]
       IN /\ cbRefs' = IF hit THEN FetchAdd(cbRefs) ELSE cbRefs
          /\ held' = IF hit THEN [held EXCEPT ![t] = @ + 1] ELSE held
          /\ cbRet' = [op |-> "QueryInterface", ptr |-> p, iid |-> iid,
                       pre |-> cbRefs,
                       post |-> IF hit THEN FetchAdd(cbRefs) ELSE cbRefs,
                       out |-> IF ~v.ok THEN "garbage"
                               ELSE IF hit THEN "obj" ELSE "null",
                       ret |-> uncheck(res)]
    /\ UNCHANGED <<cbKind, cbSink, lpVtbl, cbAlloc, cbSinkDrops, cbDeallocs, cbRx, tpc, proc>>
    /\ UNCHANGED notCb

\* error codes a wrapped closure of any type may fail with
SinkErrCodes == {E_ABORT, E_FAIL, S_OK}

\* what the wrapped closure can do when called:
\*   "channel": tx.send(..) -> Ok, or Err(E_ABORT) once the receiver is gone
\*   "w32sink": w32sink.send(..); Ok(())
\*   "any":     any FnMut(..) -> Result<(), Win32Error>, which may also panic
SinkOutcomes ==
    CASE cbSink = "channel" ->
            IF cbRx THEN {[kind |-> "ok", code |-> S_OK]}
                    ELSE {[kind |-> "err", code |-> E_ABORT]}
      [] cbSink = "w32sink" -> {[kind |-> "ok", code |-> S_OK]}
      [] OTHER -> {[kind |-> "ok", code |-> S_OK], [kind |-> "panic", code |-> S_OK]}
                  \cup {[kind |-> "err", code |-> c] : c \in SinkErrCodes}

\* callback_event_callback / callback_on_notify: validate, call the closure,
\* `?` its result, Ok(0). Nothing catches a panic of the closure: it leaves the
\* extern "system" function, which aborts the process or unwinds into the caller.
callback_event_callback(t, p, o) ==
    /\ MayCall(t, p)
    /\ o \in SinkOutcomes
    /\ LET v == validate(p)
       IN IF ~v.ok
          THEN /\ cbRet' = [op |-> "Event", ptr |-> p, sink |-> "notcalled",
                            code |-> S_OK, returned |-> TRUE, ret |-> uncheck(v)]
               /\ UNCHANGED proc
          ELSE IF o.kind = "panic"
          THEN /\ cbRet' = [op |-> "Event", ptr |-> p, sink |-> "panic",
                            code |-> S_OK, returned |-> FALSE, ret |-> S_OK]
               /\ proc' \in {"aborted", "unwound"}
          ELSE /\ cbRet' = [op |-> "Event", ptr |-> p, sink |-> o.kind,
                            code |-> o.code, returned |-> TRUE,
                            ret |-> uncheck([ok |-> o.kind = "ok", code |-> o.code])]
               /\ UNCHANGED proc
    /\ UNCHANGED <<cbKind, cbSink, lpVtbl, cbAlloc, cbRefs, cbSinkDrops, cbDeallocs, cbRx,
                   held, tpc>>
    /\ UNCHANGED notCb

\* the owner of the channel's receiving half drops it
DropReceiver ==
    /\ proc = "running"
    /\ cbSink = "channel"
    /\ cbRx
    /\ cbRx' = FALSE
    /\ UNCHANGED <<cbKind, cbSink, lpVtbl, cbAlloc, cbRefs, cbSinkDrops, cbDeallocs,
                   held, tpc, cbRet, proc>>
    /\ UNCHANGED notCb

\* a reference changes hands (the pointer passed to RegisterEventCallback /
\* RegisterControlChangeNotify is used by the driver on its own threads)
HandOver(t, u) ==
    /\ proc = "running"
    /\ t # u
    /\ tpc[t] = "idle"
    /\ held[t] > 0
    /\ held' = [held EXCEPT ![t] = @ - 1, ![u] = @ + 1]
    /\ UNCHANGED <<cbKind, cbSink, lpVtbl, cbAlloc, cbRefs, cbSinkDrops, cbDeallocs, cbRx,
                   tpc, cbRet, proc>>
    /\ UNCHANGED notCb

CbNext ==
    \/ \E t \in Threads, p \in Pointers : callback_add_ref(t, p)
    \/ \E t \in Threads, p \in Pointers : callback_release(t, p)
    \/ \E t \in Threads : callback_release_free(t)
    \/ \E t \in Threads, p \in Pointers, iid \in IIDs : callback_query_interface(t, p, iid)
    \/ \E t \in Threads, p \in Pointers, o \in SinkOutcomes : callback_event_callback(t, p, o)
    \/ DropReceiver
    \/ \E t, u \in Threads : HandOver(t, u)

InitCallback == CbInit /\ ComParked /\ BrParked /\ RestParked

SpecCallback == InitCallback /\ [][CbNext]_vars

Sum(f) == LET S[n \in 0..NThreads] == IF n = 0 THEN 0 ELSE S[n - 1] + f[n] IN S[NThreads]

C4_QueryInterface ==
    (cbRet.op = "QueryInterface" /\ cbRet.ptr = "obj") =>
        IF \/ cbRet.iid = "IUnknown"
           \/ (cbKind = "ICallback" /\ cbRet.iid = "ICallback")
           \/ (cbKind = "IAudioEndpointVolumeCallback"
                 /\ cbRet.iid = "IAudioEndpointVolumeCallback")
        THEN cbRet.post = cbRet.pre + 1 /\ cbRet.out = "obj" /\ cbRet.ret = 0
        ELSE cbRet.post = cbRet.pre /\ cbRet.out = "null" /\ cbRet.ret = E_NOINTERFACE

C4_Witness ==
    /\ cbRet.op = "QueryInterface" /\ cbRet.ptr = "obj"
    /\ cbKind = "IAudioEndpointVolumeCallback"
    /\ cbRet.iid = "IAudioEndpointVolumeCallback"
    /\ cbRet.pre = 2 /\ cbRefs = 3

C6_PanicCaught ==
    (cbRet.op = "Event" /\ cbRet.sink = "panic") =>
        /\ cbRet.returned
        /\ cbRet.ret < 0
        /\ proc = "running"


\* what a call that completes in this step leaves alone when its pointer fails
\* validation
CbUntouched == UNCHANGED <<lpVtbl, cbAlloc, cbRefs, cbSinkDrops, cbDeallocs, cbRx>>

\* C28: every completed call on the callback: AddRef on the object returns the
\* count after its increment and Release the count after its decrement; on a
\* pointer that fails validation AddRef and Release return 1 and QueryInterface
\* and the domain method return E_INVALIDARG, the sink is not invoked, no count
\* changes and nothing is freed.
C28_InvalidPointerIsInert ==
    [][cbRet' # cbRet =>
         /\ (cbRet'.op = "AddRef" /\ cbRet'.ptr = "obj") =>
                (cbRefs' = cbRefs + 1 /\ cbRet'.ret = cbRefs')
         /\ (cbRet'.op = "Release" /\ cbRet'.ptr = "obj") =>
                (cbRet'.ret = cbRefs' /\ cbRet'.ret = cbRet'.pre - 1)
         /\ (cbRet'.op \in {"AddRef", "Release"} /\ cbRet'.ptr # "obj") =>
                (cbRet'.ret = 1 /\ CbUntouched)
         /\ (cbRet'.op = "QueryInterface" /\ cbRet'.ptr # "obj") =>
                (cbRet'.ret = E_INVALIDARG /\ CbUntouched)
         /\ (cbRet'.op = "Event" /\ cbRet'.ptr # "obj") =>
                (cbRet'.ret = E_INVALIDARG /\ cbRet'.sink = "notcalled" /\ CbUntouched)
      ]_vars

\* a Release through a foreign pointer, with two references on the object
C28_Witness ==
    /\ cbRet.op = "Release"
    /\ cbRet.ptr = "foreign"
    /\ cbRet.ret = 1
    /\ cbRefs = 2
    /\ cbAlloc

\* C29: the object leaves its constructor with a count of 1 and, for as long as
\* the block exists, its table pointer is the pointer to its own vtbl field, so
\* that validate accepts the object, whatever was called on it since.
C29_TablePointerIsOwn ==
    /\ (cbRet = NoCall /\ \A t \in Threads : tpc[t] = "idle") => (cbRefs = 1 /\ cbAlloc)
    /\ cbAlloc => (lpVtbl = "self" /\ TableOf("obj") = "self" /\ validate("obj").ok)
    /\ ~cbAlloc => lpVtbl = "freed"

\* after AddRefs or QueryInterfaces and a domain call on the object
C29_Witness ==
    /\ cbRet.op = "Event"
    /\ cbRet.ptr = "obj"
    /\ cbRet.ret = 0
    /\ cbRefs = 3
    /\ lpVtbl = "self"

----------------------------------------------------------------------------
\* The notification bridge: registration, delivery, next(), disposal

\* Bounds of the bridge model
MaxDeliveries == 2
MaxWaitErrs == 1

\* event codes the driver delivers: 2 = parameter changed, anything else is unknown
EventCodes == {1, 2, 3}

\* ids a delivery may carry in data_or_feature_id and in param_id
FeatureIds == {4, 5}
ParamIds == {6}

\* EventInfo, as the driver hands it to the callback
EventInfos == [event : EventCodes, data_or_feature_id : FeatureIds, param_id : ParamIds]

\* the one notification shape kept for the volume bridge
VolumeNotification == [event |-> 1, data_or_feature_id |-> 4, param_id |-> 6]

\* the driver calls SoundCoreEvents::poll makes to re-query
GetFeatureInfo(context, feature) ==
    [call |-> "GetFeatureInfo", context |-> context, feature |-> feature, param |-> 0]
GetParamInfo(param) ==
    [call |-> "GetParamInfo", context |-> param.context, feature |-> param.feature,
     param |-> param.param]

\* the arm of `match e.event` that re-queries
IsParamChangeFrom2(event) == event >= 2
IsParamChange(event) == event = 2

\* how next() ends when the poll returned Err(error): with Some(Err(error))
NextOnErrEnds(kind) == "end"
NextOnErr(kind) == "item"

\* SoundCoreEvents::poll on a received EventInfo e. fr, pr: what the driver's
\* GetFeatureInfo and GetParamInfo return. The result is the item next() hands
\* out, with the driver calls made for it.
Classify(e, fr, pr) ==
    LET base == [seq |-> e.seq, event |-> e.event,
                 data_or_feature_id |-> e.data_or_feature_id, param_id |-> e.param_id]
        q1 == GetFeatureInfo(0, e.data_or_feature_id)
        q2 == GetParamInfo([param |-> e.param_id, feature |-> e.data_or_feature_id,
                            context |-> 0])
        item(kind, code, calls) ==
            [seq |-> base.seq, kind |-> kind, event |-> base.event,
             data_or_feature_id |-> base.data_or_feature_id,
             param_id |-> base.param_id, code |-> code, calls |-> calls]
    IN IF IsParamChange(e.event)
       THEN IF ~check(fr).ok THEN item("Err", check(fr).code, <<q1>>)
            ELSE IF ~check(pr).ok THEN item("Err", check(pr).code, <<q1, q2>>)
            ELSE item("ParamChange", S_OK, <<q1, q2>>)
       ELSE item("Unknown", S_OK, <<>>)

\* an item that is the received value itself (VolumeEvents::poll, soundcore.rs next)
Verbatim(e, kind) ==
    [seq |-> e.seq, kind |-> kind, event |-> e.event,
     data_or_feature_id |-> e.data_or_feature_id, param_id |-> e.param_id,
     code |-> S_OK, calls |-> <<>>]

\* status codes the driver's register / unregister calls may return
DriverResults == {S_OK, E_FAIL, E_INVALIDARG}

\* the callback block as a value, to run several of its methods in one step
CbNow == [refs |-> cbRefs, alloc |-> cbAlloc, sinkDrops |-> cbSinkDrops,
          deallocs |-> cbDeallocs]

\* ICallback::new / AudioEndpointVolumeCallback::wrap
CbNew == [refs |-> 1, alloc |-> TRUE, sinkDrops |-> 0, deallocs |-> 0]

\* callback_add_ref on the block (the driver keeping the pointer it was given)
AddRefDropped(cb) == cb
AddReffed(cb) == [cb EXCEPT !.refs = FetchAdd(cb.refs)]

\* callback_release on the block, with the free it may trigger
Released(cb) ==
    LET count == FetchSub(cb.refs)
    IN IF ReleaseFrees(count)
       THEN [refs |-> count, alloc |-> FALSE, sinkDrops |-> cb.sinkDrops + 1,
             deallocs |-> cb.deallocs + 1]
       ELSE [cb EXCEPT !.refs = count]

\* does the registering code call Release on the callback before it returns?
\* SoundCoreEvents::new and SoundCore::events: always (the driver keeps its own
\* reference); VolumeEvents::new: only when registering failed, otherwise the
\* reference moves into the bridge's `callback` field
CreatorNeverReleases(kind, ok) == FALSE
CreatorReleases(kind, ok) == IF kind = "VolumeEvents" THEN ~ok ELSE TRUE

\* unregister calls issued by the bridge's Drop
DropUnregistersNone(kind) == 0
DropUnregisters(kind) == 1

\* mpsc::Sender::send / VecDeque::push_back and try_recv / pop_front
SendFront(q, d) == <<d>> \o q
Send(q, d) == Append(q, d)
Recv(q) == Head(q)
AfterRecv(q) == Tail(q)

BrInit ==
    /\ brKind \in {"SoundCoreEvents", "VolumeEvents", "SoundCoreOld"}
    /\ BrFresh

\* the callback variables before the bridge has built its callback
CbUnbuilt ==
    /\ cbKind = (IF brKind = "VolumeEvents" THEN "IAudioEndpointVolumeCallback"
                 ELSE "ICallback")
    /\ cbSink = (IF brKind = "SoundCoreOld" THEN "w32sink" ELSE "channel")
    /\ lpVtbl = "null"
    /\ cbAlloc = FALSE
    /\ cbRefs = 0
    /\ cbSinkDrops = 0
    /\ cbDeallocs = 0
    /\ cbRx = FALSE
    /\ held = [t \in Threads |-> 0]
    /\ tpc = [t \in Threads |-> "idle"]
    /\ cbRet = NoCall
    /\ proc = "running"

SetCb(cb) ==
    /\ lpVtbl' = IF ~cb.alloc THEN "freed"
                 ELSE IF cbAlloc THEN lpVtbl ELSE TableAfterNew(cbKind)
    /\ cbRefs' = cb.refs
    /\ cbAlloc' = cb.alloc
    /\ cbSinkDrops' = cb.sinkDrops
    /\ cbDeallocs' = cb.deallocs

\* SoundCoreEvents::new(event_notify, core, logger) and VolumeEvents::new(volume).
\* r: what the driver's register call returns; takeOk: whether the apartment
\* initialization inside ComObject::take(callback) succeeds (VolumeEvents only)
BridgeNew(r, takeOk) ==
    /\ brKind \in {"SoundCoreEvents", "VolumeEvents"}
    /\ brPhase = "init"
    /\ LET result == check(r)
           registered == IF result.ok THEN AddReffed(CbNew) ELSE CbNew
           cb == IF CreatorReleases(brKind, result.ok) THEN Released(registered)
                 ELSE registered
           built == result.ok /\ (brKind = "VolumeEvents" => takeOk)
       IN /\ SetCb(cb)
          /\ nRegister' = nRegister + 1
          /\ regRet' = r
          /\ reg' = IF result.ok THEN "registered" ELSE reg
          /\ drvRef' = result.ok
          /\ brPhase' = IF ~result.ok THEN "failed"
                        ELSE IF built THEN "alive" ELSE "panicked"
          /\ brErr' = IF result.ok THEN S_OK ELSE result.code
          /\ ownRef' = (built /\ brKind = "VolumeEvents")
          /\ srcHeld' = built
          /\ cbRx' = built
    /\ UNCHANGED <<brKind, nUnreg, chan, accepted, returned, nDeliver, cpc, taskReg,
                   notified, closedRead, closedWrite, lastNext>>
    /\ UNCHANGED <<cbKind, cbSink, held, tpc, cbRet, proc>>
    /\ UNCHANGED <<brAux, notBr>>

\* SoundCore::events (soundcore.rs): QueryInterface for IEventNotify, build the
\* (sink, iterator) pair, register, Release, `result?`. On a failed register the
\* local `iterator` is dropped, and its Drop unregisters.
SoundCore_events(qiOk, r) ==
    /\ brKind = "SoundCoreOld"
    /\ brPhase = "init"
    /\ IF ~qiOk
       THEN /\ brPhase' = "failed"
            /\ brErr' = E_NOINTERFACE
            /\ srcHeld' = FALSE
            /\ UNCHANGED <<lpVtbl, cbRefs, cbAlloc, cbSinkDrops, cbDeallocs, cbRx, regRet, reg,
                           nRegister, nUnreg, drvRef, closedRead, closedWrite, notified>>
       ELSE LET result == check(r)
                registered == IF result.ok THEN AddReffed(CbNew) ELSE CbNew
                cb == IF CreatorReleases(brKind, result.ok) THEN Released(registered)
                      ELSE registered
            IN /\ SetCb(cb)
               /\ nRegister' = nRegister + 1
               /\ regRet' = r
               /\ reg' = IF result.ok THEN "registered" ELSE reg
               /\ drvRef' = result.ok
               /\ brPhase' = IF result.ok THEN "alive" ELSE "failed"
               /\ brErr' = IF result.ok THEN S_OK ELSE result.code
               /\ cbRx' = result.ok
               \* Drop for SoundCoreEventIteratorSink, when the Release freed the block
               /\ closedWrite' = ~cb.alloc
               /\ notified' = ~cb.alloc
               \* Drop for SoundCoreEventIterator, when `result?` returns early
               /\ closedRead' = ~result.ok
               /\ nUnreg' = IF result.ok THEN nUnreg ELSE nUnreg + DropUnregisters(brKind)
               /\ srcHeld' = result.ok
    /\ UNCHANGED <<brKind, ownRef, chan, accepted, returned, nDeliver, cpc, taskReg,
                   lastNext>>
    /\ UNCHANGED <<cbKind, cbSink, held, tpc, cbRet, proc>>
    /\ UNCHANGED <<brAux, notBr>>

\* what the receiving half is after the bridge's Drop and the drop of its
\* fields: gone (Receiver dropped / closed_read set)
RxAfterDropKept(rx) == rx
RxAfterDrop(rx) == FALSE

\* one completed domain-method call: seq numbers the calls; afterDrop: its send
\* step ran after the bridge's Drop; alive: the callback block existed when it was
\* invoked; sent: the sink enqueued the item; notify: the sink woke the consumer
\* (tx_task.notify() / SetEvent); endedAfterDrop: it returned after the Drop
DrvCall(seq, afterDrop, alive, sent, ret, notify) ==
    [seq |-> seq, afterDrop |-> afterDrop, alive |-> alive, sent |-> sent,
     ret |-> ret, notify |-> notify, endedAfterDrop |-> brPhase = "dropped"]

\* the driver calls the callback's domain method (on one of its own threads):
\* callback_event_callback / callback_on_notify with the bridge's closure, up to
\* and including the send. The w32sink of soundcore.rs pushes and signals under
\* one lock; the channel closures send first and notify the task afterwards.
Deliver(e) ==
    /\ drvRef
    /\ dpc = "idle"
    /\ nDeliver < MaxDeliveries
    /\ brKind = "VolumeEvents" => e = VolumeNotification
    /\ nDeliver' = nDeliver + 1
    /\ LET d == [seq |-> nDeliver + 1, event |-> e.event,
                 data_or_feature_id |-> e.data_or_feature_id, param_id |-> e.param_id]
           sent == cbAlloc /\ (IF brKind = "SoundCoreOld" THEN ~closedRead ELSE cbRx)
           res == IF brKind = "SoundCoreOld" \/ cbRx
                  THEN [ok |-> TRUE, code |-> S_OK]
                  ELSE [ok |-> FALSE, code |-> E_ABORT]
           twoSteps == sent /\ brKind # "SoundCoreOld"
       IN /\ chan' = IF sent THEN Send(chan, d) ELSE chan
          /\ accepted' = IF sent THEN Append(accepted, d) ELSE accepted
          /\ notified' = IF sent /\ brKind = "SoundCoreOld" THEN TRUE ELSE notified
          /\ dpc' = IF twoSteps THEN "notify" ELSE "idle"
          /\ cbRet' = IF twoSteps THEN cbRet
                      ELSE [op |-> "Event", ptr |-> "obj",
                            sink |-> IF res.ok THEN "ok" ELSE "err", code |-> res.code,
                            returned |-> TRUE, ret |-> uncheck(res)]
          /\ drvCalls' = IF twoSteps THEN drvCalls
                         ELSE Append(drvCalls,
                                     DrvCall(nDeliver + 1, brPhase = "dropped", cbAlloc,
                                             sent, uncheck(res), sent))
    /\ UNCHANGED <<brKind, brPhase, brErr, regRet, reg, nRegister, nUnreg, drvRef,
                   ownRef, srcHeld, returned, cpc, taskReg, closedRead, closedWrite,
                   lastNext, dropRet>>
    /\ UNCHANGED <<cbKind, cbSink, lpVtbl, cbAlloc, cbRefs, cbSinkDrops, cbDeallocs, cbRx,
                   held, tpc, proc>>
    /\ UNCHANGED notBr

\* the rest of the channel closure after a successful send: tx_task.notify(),
\* Ok(()), and the domain method returns S_OK
DeliverNotify ==
    /\ dpc = "notify"
    /\ dpc' = "idle"
    /\ notified' = IF taskReg THEN TRUE ELSE notified
    /\ cbRet' = [op |-> "Event", ptr |-> "obj", sink |-> "ok", code |-> S_OK,
                 returned |-> TRUE, ret |-> uncheck([ok |-> TRUE, code |-> S_OK])]
    /\ drvCalls' = Append(drvCalls, DrvCall(nDeliver, FALSE, cbAlloc, TRUE, S_OK, TRUE))
    /\ UNCHANGED <<brKind, brPhase, brErr, regRet, reg, nRegister, nUnreg, drvRef,
                   ownRef, srcHeld, chan, accepted, returned, nDeliver, cpc, taskReg,
                   closedRead, closedWrite, lastNext, dropRet>>
    /\ UNCHANGED <<cbKind, cbSink, lpVtbl, cbAlloc, cbRefs, cbSinkDrops, cbDeallocs, cbRx,
                   held, tpc, proc>>
    /\ UNCHANGED notBr

\* the unregistered driver lets go of its reference to the callback
DriverRelease ==
    /\ drvRef
    /\ reg = "unregistered"
    /\ dpc = "idle"
    /\ drvRef' = FALSE
    /\ LET cb == Released(CbNow)
       IN /\ SetCb(cb)
          /\ closedWrite' = IF brKind = "SoundCoreOld" THEN ~cb.alloc ELSE closedWrite
          /\ notified' = IF brKind = "SoundCoreOld" /\ ~cb.alloc THEN TRUE ELSE notified
    /\ UNCHANGED <<brKind, brPhase, brErr, regRet, reg, nRegister, nUnreg, ownRef,
                   srcHeld, chan, accepted, returned, nDeliver, cpc, taskReg,
                   closedRead, lastNext>>
    /\ UNCHANGED <<cbKind, cbSink, cbRx, held, tpc, cbRet, proc>>
    /\ UNCHANGED <<brAux, notBr>>

\* the consumer calls next() on the iterator
NextCall ==
    /\ brPhase = "alive"
    /\ cpc = "idle"
    /\ lastNext # "panic"
    /\ cpc' = "polling"
    /\ UNCHANGED <<brKind, brPhase, brErr, regRet, reg, nRegister, nUnreg, drvRef,
                   ownRef, srcHeld, chan, accepted, returned, nDeliver, taskReg,
                   notified, closedRead, closedWrite, lastNext>>
    /\ UNCHANGED <<cbVars, brAux, notBr>>

\* SoundCoreEvents::poll / VolumeEvents::poll inside next(): register the task,
\* try_recv, classify. fr, pr: what the driver returns when the feature and the
\* parameter are re-queried.
Poll(fr, pr) ==
    /\ brKind \in {"SoundCoreEvents", "VolumeEvents"}
    /\ cpc = "polling"
    /\ taskReg' = TRUE
    /\ IF chan # <<>>
       THEN LET e == Recv(chan)
                it == IF brKind = "VolumeEvents" THEN Verbatim(e, "Volume")
                      ELSE Classify(e, fr, pr)
            IN /\ chan' = AfterRecv(chan)
               /\ returned' = Append(returned, it)
               /\ lastNext' = IF it.kind = "Err" THEN NextOnErr(brKind) ELSE "item"
               /\ cpc' = "idle"
       ELSE IF cbAlloc
       THEN \* TryRecvError::Empty: NotReady, next() goes on to park
            /\ cpc' = "parked"
            /\ UNCHANGED <<chan, returned, lastNext>>
       ELSE \* TryRecvError::Disconnected: the sender is gone, end of stream
            /\ cpc' = "idle"
            /\ lastNext' = "end"
            /\ UNCHANGED <<chan, returned>>
    /\ UNCHANGED <<brKind, brPhase, brErr, regRet, reg, nRegister, nUnreg, drvRef,
                   ownRef, srcHeld, accepted, nDeliver, notified, closedRead,
                   closedWrite>>
    /\ UNCHANGED <<cbVars, brAux, notBr>>

\* SoundCoreEventIterator::next (soundcore.rs): the loop test and the pop_front
PollOld ==
    /\ brKind = "SoundCoreOld"
    /\ cpc = "polling"
    /\ IF chan # <<>>
       THEN /\ returned' = Append(returned, Verbatim(Recv(chan), "Raw"))
            /\ chan' = AfterRecv(chan)
            /\ lastNext' = "item"
            /\ cpc' = "idle"
       ELSE IF closedWrite
       THEN /\ cpc' = "idle"
            /\ lastNext' = "end"
            /\ UNCHANGED <<chan, returned>>
       ELSE /\ cpc' = "parked"
            /\ UNCHANGED <<chan, returned, lastNext>>
    /\ UNCHANGED <<brKind, brPhase, brErr, regRet, reg, nRegister, nUnreg, drvRef,
                   ownRef, srcHeld, accepted, nDeliver, taskReg, notified, closedRead,
                   closedWrite>>
    /\ UNCHANGED <<cbVars, brAux, notBr>>

WaitErrs == Len(SelectSeq(returned, LAMBDA x : x.kind = "WaitErr"))

\* CoWaitForMultipleObjects returns inside next(): the event was signalled
\* (ok) or the wait failed. A failed wait is an error item in soundcore.rs and
\* an expect() panic in ComUnpark::park.
Unpark(ok) ==
    /\ cpc = "parked"
    /\ IF ok
       THEN /\ notified
            /\ notified' = FALSE
            /\ cpc' = "polling"
            /\ UNCHANGED <<returned, lastNext>>
       ELSE /\ cpc' = "idle"
            /\ IF brKind = "SoundCoreOld"
               THEN /\ WaitErrs < MaxWaitErrs
                    /\ returned' = Append(returned, [seq |-> 0, kind |-> "WaitErr"])
                    /\ lastNext' = "waiterr"
               ELSE /\ lastNext' = "panic"
                    /\ UNCHANGED returned
            /\ UNCHANGED notified
    /\ UNCHANGED <<brKind, brPhase, brErr, regRet, reg, nRegister, nUnreg, drvRef,
                   ownRef, srcHeld, chan, accepted, nDeliver, taskReg, closedRead,
                   closedWrite>>
    /\ UNCHANGED <<cbVars, brAux, notBr>>

\* what the disposal of a bridge does, in order: the body of its Drop, then its
\* fields in declaration order (event_notify, events, .., core for
\* SoundCoreEvents; volume, events, task, callback for VolumeEvents); the
\* iterator of soundcore.rs closes and clears its queue, unregisters, Releases
DropStepsFieldsFirst(kind) ==
    IF kind = "VolumeEvents"
    THEN <<"release source", "drop receiver", "release callback", "unregister">>
    ELSE <<"release source", "drop receiver", "unregister">>
DropSteps(kind) ==
    CASE kind = "SoundCoreEvents" ->
            <<"unregister", "release source", "drop receiver", "release core">>
      [] kind = "VolumeEvents" ->
            <<"unregister", "release source", "drop receiver", "release callback">>
      [] OTHER ->
            <<"drop receiver", "unregister", "release source">>

\* does the bridge's Drop panic on what unregister returned? Only VolumeEvents
\* checks it (`check(..).unwrap()`); SoundCoreEvents and SoundCoreEventIterator
\* drop the returned status
DropPanics(kind, u) == kind = "VolumeEvents" /\ ~check(u).ok

\* Drop for SoundCoreEvents / VolumeEvents / SoundCoreEventIterator (soundcore.rs),
\* then the drop of the fields. u: what the driver's unregister call returns.
BridgeDrop(u) ==
    /\ brPhase = "alive"
    /\ cpc = "idle"
    /\ brPhase' = "dropped"
    /\ nUnreg' = nUnreg + DropUnregisters(brKind)
    /\ reg' = IF check(u).ok THEN "unregistered" ELSE reg
    /\ srcHeld' = FALSE
    /\ chan' = IF RxAfterDrop(cbRx) THEN chan ELSE <<>>
    /\ closedRead' = (brKind = "SoundCoreOld" /\ ~RxAfterDrop(TRUE))
    /\ cbRx' = RxAfterDrop(cbRx)
    /\ ownRef' = FALSE
    /\ SetCb(IF ownRef THEN Released(CbNow) ELSE CbNow)
    /\ lastNext' = IF DropPanics(brKind, u) THEN "panic" ELSE lastNext
    /\ dropRet' = [done |-> TRUE, unreg |-> u, panicked |-> DropPanics(brKind, u),
                   accepted |-> Len(accepted), returned |-> Len(returned),
                   buffered |-> Len(chan), steps |-> DropSteps(brKind)]
    /\ UNCHANGED <<brKind, brErr, regRet, nRegister, drvRef, accepted, returned,
                   nDeliver, cpc, taskReg, notified, closedWrite, dpc, drvCalls>>
    /\ UNCHANGED <<cbKind, cbSink, held, tpc, cbRet, proc>>
    /\ UNCHANGED notBr

BrNext ==
    \/ \E r \in DriverResults, takeOk \in BOOLEAN : BridgeNew(r, takeOk)
    \/ \E qiOk \in BOOLEAN, r \in DriverResults : SoundCore_events(qiOk, r)
    \/ \E e \in EventInfos : Deliver(e)
    \/ DeliverNotify
    \/ DriverRelease
    \/ NextCall
    \/ \E fr \in DriverResults, pr \in DriverResults : Poll(fr, pr)
    \/ PollOld
    \/ \E ok \in BOOLEAN : Unpark(ok)
    \/ \E u \in DriverResults : BridgeDrop(u)

InitBridge == BrInit /\ CbUnbuilt /\ ComParked /\ RestParked

SpecBridge == InitBridge /\ [][BrNext]_vars

\* C7: a bridge whose registration succeeded has issued no unregister call
\* while it is alive and exactly one once it is dropped.
C7_UnregisterOnceAtDrop ==
    /\ brPhase = "alive" => nUnreg = 0 /\ nRegister = 1 /\ regRet >= 0
    /\ brPhase = "dropped" => nUnreg = 1

C7_Witness ==
    /\ brPhase = "dropped"
    /\ Len(returned) = 2
    /\ nUnreg = 1

\* C8: a failed register call is never followed by an unregister call.
C8_NoUnregisterAfterFailedRegister ==
    (brPhase = "failed" /\ nRegister = 1) => nUnreg = 0

\* C9: after a failed register call the callback has been released: its count
\* is zero, its sink was destroyed exactly once and the block freed once, the
\* caller holds the driver's error code and no bridge exists.
C9_CallbackReleasedOnFailure ==
    (nRegister = 1 /\ regRet < 0) =>
        /\ brPhase = "failed"
        /\ brErr = regRet
        /\ cbRefs = 0
        /\ ~cbAlloc
        /\ cbSinkDrops = 1
        /\ cbDeallocs = 1
        /\ ~drvRef /\ ~ownRef

C9_Witness ==
    /\ brKind = "VolumeEvents"
    /\ nRegister = 1
    /\ regRet = E_INVALIDARG
    /\ brErr = E_INVALIDARG
    /\ cbSinkDrops = 1

DeliveryItems == SelectSeq(returned, LAMBDA x : x.kind # "WaitErr")

Seqs(q) == [i \in 1..Len(q) |-> q[i].seq]

\* C10: the deliveries next() has returned are, in order and without gap or
\* repetition, the first deliveries the callback accepted; while the bridge is
\* alive the returned and the still buffered deliveries together are exactly
\* the accepted ones.
C10_FifoDelivery ==
    /\ Len(DeliveryItems) <= Len(accepted)
    /\ \A i \in 1..Len(DeliveryItems) : DeliveryItems[i].seq = accepted[i].seq
    /\ brPhase = "alive" => Seqs(DeliveryItems) \o Seqs(chan) = Seqs(accepted)

C10_Witness ==
    /\ Len(DeliveryItems) = 2
    /\ DeliveryItems[1].seq = 1
    /\ DeliveryItems[2].seq = 2
    /\ brKind = "SoundCoreEvents"

\* the accepted delivery an item was made from
DeliveryOf(it) == CHOOSE d \in {accepted[k] : k \in 1..Len(accepted)} : d.seq = it.seq

\* C13: in SoundCoreEvents, a failed re-query gives one error item for its
\* code-2 delivery, carrying the failure code; the delivery is consumed (no
\* second item for it, not left in the channel); and the sequence goes on: the
\* end is reported only when the sender is gone, and while the bridge is alive
\* every accepted delivery is either returned or still buffered.
C13_QueryFailureIsOneItem ==
    brKind = "SoundCoreEvents" =>
        /\ \A i \in 1..Len(returned) :
               returned[i].kind = "Err" =>
                   /\ returned[i].event = 2
                   /\ returned[i].code < 0
                   /\ \A j \in 1..Len(returned) :
                          returned[j].seq = returned[i].seq => j = i
                   /\ \A k \in 1..Len(chan) : chan[k].seq # returned[i].seq
        /\ lastNext = "end" => ~cbAlloc
        /\ brPhase = "alive" => Len(returned) + Len(chan) = Len(accepted)

C13_Witness ==
    /\ brKind = "SoundCoreEvents"
    /\ Len(returned) = 2
    /\ returned[1].kind = "Err"
    /\ returned[1].code = E_INVALIDARG
    /\ returned[2].kind \in {"Unknown", "ParamChange"}
    /\ returned[2].seq = 2

\* C14: in SoundCoreEvents, an item made from a code-2 delivery had
\* GetFeatureInfo(context 0, data_or_feature_id) called for it, then, if that
\* succeeded, GetParamInfo(context 0, that feature, param_id), and is
\* ParamChange (both calls made) or the error of the failed call; an item made
\* from any other code is Unknown with the three delivered fields unchanged
\* and no driver call.
C14_ClassifiedByEventCode ==
    brKind = "SoundCoreEvents" =>
        \A i \in 1..Len(returned) :
            LET it == returned[i]
                d == DeliveryOf(it)
            IN /\ d.event = 2 =>
                      /\ it.kind \in {"ParamChange", "Err"}
                      /\ Len(it.calls) \in {1, 2}
                      /\ it.calls[1] = [call |-> "GetFeatureInfo", context |-> 0,
                                        feature |-> d.data_or_feature_id, param |-> 0]
                      /\ Len(it.calls) = 2 =>
                             it.calls[2] = [call |-> "GetParamInfo", context |-> 0,
                                            feature |-> d.data_or_feature_id,
                                            param |-> d.param_id]
                      /\ it.kind = "ParamChange" => Len(it.calls) = 2
               /\ d.event # 2 =>
                      /\ it.kind = "Unknown"
                      /\ it.event = d.event
                      /\ it.data_or_feature_id = d.data_or_feature_id
                      /\ it.param_id = d.param_id
                      /\ it.calls = <<>>

C14_Witness ==
    /\ brKind = "SoundCoreEvents"
    /\ Len(returned) = 2
    /\ returned[1].kind = "ParamChange"
    /\ returned[1].data_or_feature_id = 5
    /\ returned[1].param_id = 6
    /\ returned[2].kind = "Unknown"
    /\ returned[2].event = 3


\* C24: whenever the driver's unregister call fails during the bridge's Drop,
\* the Drop panics, for the SoundCore bridges as for the volume bridge.
C24_UnregisterFailurePanics ==
    (dropRet.done /\ ~check(dropRet.unreg).ok) => dropRet.panicked

C30_CallbackOutlivesCreator ==
    /\ drvRef => (cbAlloc /\ cbRefs >= 1 /\ cbSinkDrops = 0)
    /\ brPhase \in {"alive", "dropped"} =>
           cbRefs = (IF drvRef THEN 1 ELSE 0) + (IF ownRef THEN 1 ELSE 0)
    /\ cbAlloc <=> cbRefs > 0
    /\ cbDeallocs = cbSinkDrops /\ cbDeallocs <= 1
    /\ (cbDeallocs = 1) <=> (nRegister = 1 /\ cbRefs = 0)
    /\ dpc = "notify" => cbAlloc
    /\ \A i \in 1..Len(drvCalls) : drvCalls[i].alive

\* delivered to after the creating reference was released, freed by the
\* driver's Release after the Drop
C30_Witness ==
    /\ brKind = "SoundCoreEvents"
    /\ brPhase = "dropped"
    /\ Len(drvCalls) = 2
    /\ drvCalls[1].sent /\ ~drvCalls[1].endedAfterDrop
    /\ ~drvRef
    /\ ~cbAlloc
    /\ cbDeallocs = 1


\* positions of a step in the disposal that ran
StepAt(name) == {i \in 1..Len(dropRet.steps) : dropRet.steps[i] = name}

\* C31: in the disposal of a bridge the one unregister call comes before the
\* Release of the notification-source handle and, for the volume bridge, before
\* the Release of the bridge's callback reference; what the channel still held
\* is gone and next() has returned nothing since.
C31_UnregisterBeforeRelease ==
    dropRet.done =>
        /\ Cardinality(StepAt("unregister")) = 1
        /\ Cardinality(StepAt("release source")) = 1
        /\ \A u \in StepAt("unregister") :
               \A r \in StepAt("release source") \cup StepAt("release callback") : u < r
        /\ brKind = "VolumeEvents" => Cardinality(StepAt("release callback")) = 1
        /\ StepAt("drop receiver") # {}
        /\ ~srcHeld /\ ~ownRef
        /\ chan = <<>>
        /\ Len(returned) = dropRet.returned

\* a volume bridge dropped with two items still in its channel
C31_Witness ==
    /\ brKind = "VolumeEvents"
    /\ dropRet.done
    /\ dropRet.buffered = 2
    /\ returned = <<>>
    /\ chan = <<>>

----------------------------------------------------------------------------
\* The blocking iterator: next() polls the stream and parks while it is not
\* ready; a producer on another thread sends and then notifies.

\* Bound of the iterator model
MaxItems == 2

ItKinds == {"ComEventIterator", "SoundCoreEventIterator", "SoundCoreOld"}

\* the iterators of com/event.rs and soundcore/event.rs poll a Stream through
\* an AtomicTask; soundcore.rs reads its VecDeque under a critical section
UsesTask(kind) == kind # "SoundCoreOld"

\* CreateEventW(.., bManualReset, ..): 1 in com/event.rs, 0 elsewhere
ManualReset(kind) == kind = "ComEventIterator"

\* what a stream item may be: a value, or an error the stream's poll reports
ItemVals(kind) == IF UsesTask(kind) THEN {"item", "err"} ELSE {"item"}

\* what try_recv / the loop test of soundcore.rs finds
Avail(q, gone) ==
    IF q # <<>> THEN [kind |-> Recv(q).val, id |-> Recv(q).id]
    ELSE IF gone THEN [kind |-> "end", id |-> 0]
    ELSE NoItem

\* where next() starts: with a poll
NextStartsParked(kind) == "park"
NextStartsAt(kind) == "poll"

\* where next() goes when the poll said NotReady: into park
AfterNotReadyRepolls(kind) == "poll"
AfterNotReady(kind) == "park"

\* whether the consumer at position pc holds the lock of its park between two
\* of its steps: park of soundcore/event.rs keeps the MutexGuard across the
\* wait; park of com/event.rs ends the guard's block before the wait and locks
\* again only to pop or reset; next() of soundcore.rs leaves the critical
\* section before the wait
ParkHoldsLockInWait(kind, pc) == pc = "wait"
ParkHoldsLock(kind, pc) == kind = "SoundCoreEventIterator" /\ pc = "wait"

\* whether the producer's send takes that lock: only the sink of soundcore.rs
\* (EnterCriticalSection); tx.send of an mpsc::channel() takes none
SendLocks(kind) == kind = "SoundCoreOld"

\* whether ComUnpark::notify takes that lock: com/event.rs locks the state to
\* push the id; soundcore/event.rs only calls SetEvent
NotifyLocks(kind) == kind = "ComEventIterator"

\* the two halves of the stream's poll, in the order the code runs them:
\* self.task.register() first, then self.events.try_recv()
PollOrderRecvFirst(kind) == <<"recv", "register">>
PollOrder(kind) == <<"register", "recv">>

\* the consumer position at which a half of the poll runs
HalfAt(kind, half) == IF PollOrder(kind)[1] = half THEN "poll" ELSE "recv"

ItInit == itKind \in ItKinds /\ ItFresh

notIt == <<comVars, cbVars, brVars, curVars, parVars, extVars>>

\* the consumer calls next()
ItNextCall ==
    /\ ipc = "idle"
    /\ ipc' = NextStartsAt(itKind)
    /\ callAvail' = Avail(events, senderGone)
    /\ firstPoll' = "none"
    /\ lastPoll' = "none"
    /\ nParks' = 0
    /\ nWaits' = 0
    /\ nFast' = 0
    /\ sentAfter' = 0
    /\ UNCHANGED <<itKind, events, senderGone, task, ready, ready_event, ppc, nSent,
                   nWaitErr, itRet>>
    /\ UNCHANGED notIt

\* next() returns item a; fp is the result of the call's first poll
ItReturn(a, fp) ==
    /\ ipc' = "idle"
    /\ itRet' = [kind |-> a.kind, id |-> a.id, avail |-> callAvail, firstPoll |-> fp,
                 parks |-> nParks, waits |-> nWaits, fast |-> nFast,
                 sentAfter |-> sentAfter]

\* the stream's poll, first half: self.task.register()
ItRegister ==
    /\ UsesTask(itKind)
    /\ ipc = HalfAt(itKind, "register")
    /\ task' = TRUE
    /\ ipc' = IF ipc = "poll" THEN "recv" ELSE AfterNotReady(itKind)
    /\ UNCHANGED <<itKind, events, senderGone, ready, ready_event, ppc, nSent, nWaitErr,
                   callAvail, firstPoll, lastPoll, nParks, nWaits, nFast, sentAfter,
                   itRet>>
    /\ UNCHANGED notIt

\* the stream's poll, second half: try_recv, and the match in next()
ItTryRecv ==
    /\ UsesTask(itKind)
    /\ ipc = HalfAt(itKind, "recv")
    /\ LET a == Avail(events, senderGone)
           res == IF a.kind = "none" THEN "notready" ELSE "ready"
           fp == IF firstPoll = "none" THEN res ELSE firstPoll
       IN /\ firstPoll' = fp
          /\ lastPoll' = res
          /\ IF a.kind = "none"
             THEN /\ ipc' = IF ipc = "poll" THEN "recv" ELSE AfterNotReady(itKind)
                  /\ UNCHANGED <<events, itRet>>
             ELSE /\ events' = IF a.kind = "end" THEN events ELSE AfterRecv(events)
                  /\ ItReturn(a, fp)
    /\ UNCHANGED <<itKind, senderGone, task, ready, ready_event, ppc, nSent, nWaitErr,
                   callAvail, nParks, nWaits, nFast, sentAfter>>
    /\ UNCHANGED notIt

\* soundcore.rs next(): EnterCriticalSection, the loop test, pop_front
ItPollOld ==
    /\ ~UsesTask(itKind)
    /\ ipc = "poll"
    /\ LET a == Avail(events, senderGone)
           res == IF a.kind = "none" THEN "notready" ELSE "ready"
           fp == IF firstPoll = "none" THEN res ELSE firstPoll
       IN /\ firstPoll' = fp
          /\ lastPoll' = res
          /\ IF a.kind = "none"
             THEN /\ ipc' = AfterNotReady(itKind)
                  /\ UNCHANGED <<events, itRet>>
             ELSE /\ events' = IF a.kind = "end" THEN events ELSE AfterRecv(events)
                  /\ ItReturn(a, fp)
    /\ UNCHANGED <<itKind, senderGone, task, ready, ready_event, ppc, nSent, nWaitErr,
                   callAvail, nParks, nWaits, nFast, sentAfter>>
    /\ UNCHANGED notIt

\* ComUnpark::park up to the wait: com/event.rs pops the ready queue first and
\* returns at once when it holds an id; the others go straight to the wait
ItPark ==
    /\ ipc = "park"
    /\ nParks' = nParks + 1
    /\ IF itKind = "ComEventIterator" /\ ready > 0
       THEN /\ ready' = ready - 1
            /\ nFast' = nFast + 1
            /\ ipc' = "poll"
       ELSE /\ ipc' = "wait"
            /\ UNCHANGED <<ready, nFast>>
    /\ UNCHANGED <<itKind, events, senderGone, task, ready_event, ppc, nSent, nWaitErr,
                   callAvail, firstPoll, lastPoll, nWaits, sentAfter, itRet>>
    /\ UNCHANGED notIt

\* CoWaitForMultipleObjects returns: the event was signalled (ok), or the wait
\* failed, which is an expect() panic in park and an error item in soundcore.rs
ItWait(ok) ==
    /\ ipc = "wait"
    /\ nWaits' = nWaits + 1
    /\ IF ok
       THEN /\ ready_event
            /\ ready_event' = IF ManualReset(itKind) THEN ready_event ELSE FALSE
            /\ ipc' = IF itKind = "ComEventIterator" THEN "woken" ELSE "poll"
            /\ UNCHANGED <<nWaitErr, itRet>>
       ELSE /\ nWaitErr < MaxWaitErrs
            /\ nWaitErr' = nWaitErr + 1
            /\ UNCHANGED ready_event
            /\ IF UsesTask(itKind)
               THEN ipc' = "panicked" /\ UNCHANGED itRet
               ELSE /\ ipc' = "idle"
                    /\ itRet' = [kind |-> "waiterr", id |-> 0, avail |-> callAvail,
                                 firstPoll |-> firstPoll, parks |-> nParks,
                                 waits |-> nWaits + 1, fast |-> nFast,
                                 sentAfter |-> sentAfter]
    /\ UNCHANGED <<itKind, events, senderGone, task, ready, ppc, nSent, callAvail,
                   firstPoll, lastPoll, nParks, nFast, sentAfter>>
    /\ UNCHANGED notIt

\* com/event.rs park after the wait: pop the ready queue, or ResetEvent and wait again
ItWoken ==
    /\ ipc = "woken"
    /\ IF ready > 0
       THEN /\ ready' = ready - 1
            /\ ipc' = "poll"
            /\ UNCHANGED ready_event
       ELSE /\ ready_event' = FALSE
            /\ ipc' = "wait"
            /\ UNCHANGED ready
    /\ UNCHANGED <<itKind, events, senderGone, task, ppc, nSent, nWaitErr, callAvail,
                   firstPoll, lastPoll, nParks, nWaits, nFast, sentAfter, itRet>>
    /\ UNCHANGED notIt

\* the producer sends: tx.send(*e) of the callback closure (notify follows as
\* its own step), or SoundCoreEventIteratorSink::send, which pushes and sets
\* the event under the lock
ItSend(v) ==
    /\ v \in ItemVals(itKind)
    /\ ppc = "idle"
    /\ ~senderGone
    /\ nSent < MaxItems
    /\ SendLocks(itKind) => ~ParkHoldsLock(itKind, ipc)
    /\ nSent' = nSent + 1
    /\ events' = Send(events, [id |-> nSent + 1, val |-> v])
    /\ sentAfter' = IF ipc \notin {"idle", "panicked"} /\ firstPoll = "notready"
                       /\ sentAfter = 0
                    THEN nSent + 1 ELSE sentAfter
    /\ IF UsesTask(itKind)
       THEN ppc' = "notify" /\ UNCHANGED ready_event
       ELSE ready_event' = TRUE /\ UNCHANGED ppc
    /\ UNCHANGED <<itKind, senderGone, task, ready, ipc, nWaitErr, callAvail, firstPoll,
                   lastPoll, nParks, nWaits, nFast, itRet>>
    /\ UNCHANGED notIt

\* tx_task.notify(): wakes the registered task through ComUnpark::notify.
\* keep: whether the AtomicTask still holds the task afterwards.
ItNotify(keep) ==
    /\ ppc = "notify"
    /\ (task /\ NotifyLocks(itKind)) => ~ParkHoldsLock(itKind, ipc)
    /\ ppc' = "idle"
    /\ IF task
       THEN /\ ready' = IF itKind = "ComEventIterator" THEN ready + 1 ELSE ready
            /\ ready_event' = TRUE
            /\ task' = keep
       ELSE UNCHANGED <<ready, ready_event, task>>
    /\ UNCHANGED <<itKind, events, senderGone, ipc, nSent, nWaitErr, callAvail,
                   firstPoll, lastPoll, nParks, nWaits, nFast, sentAfter, itRet>>
    /\ UNCHANGED notIt

\* the sending half is dropped: the mpsc Sender with the callback, or Drop for
\* SoundCoreEventIteratorSink, which sets closed_write and the event
ItSenderDrop ==
    /\ ppc = "idle"
    /\ ~senderGone
    /\ senderGone' = TRUE
    /\ ready_event' = IF UsesTask(itKind) THEN ready_event ELSE TRUE
    /\ UNCHANGED <<itKind, events, task, ready, ipc, ppc, nSent, nWaitErr, callAvail,
                   firstPoll, lastPoll, nParks, nWaits, nFast, sentAfter, itRet>>
    /\ UNCHANGED notIt

ItNext ==
    \/ ItNextCall
    \/ ItRegister
    \/ ItTryRecv
    \/ ItPollOld
    \/ ItPark
    \/ \E ok \in BOOLEAN : ItWait(ok)
    \/ ItWoken
    \/ \E v \in {"item", "err"} : ItSend(v)
    \/ \E keep \in BOOLEAN : ItNotify(keep)
    \/ ItSenderDrop

InitIter == ItInit /\ ComParked /\ CbParked /\ BrParked /\ CurParked /\ ParParked
                /\ ExtParked

SpecIter == InitIter /\ [][ItNext]_vars

\* The same steps under fair scheduling: the consumer thread keeps calling
\* next() and takes each step of it that stays possible, a wait returns once
\* its event is signalled, and the driver thread finishes a delivery it began.
ItFairness ==
    /\ WF_vars(ItNextCall)
    /\ WF_vars(ItRegister)
    /\ WF_vars(ItTryRecv)
    /\ WF_vars(ItPollOld)
    /\ WF_vars(ItPark)
    /\ WF_vars(ItWait(TRUE))
    /\ WF_vars(ItWoken)
    /\ WF_vars(\E keep \in BOOLEAN : ItNotify(keep))

SpecIterFair == InitIter /\ [][ItNext]_vars /\ ItFairness

\* C11: a next() of ComEventIterator / SoundCoreEventIterator whose first poll
\* said not ready and to which an item was delivered afterwards has entered
\* park at least once (each park either waited or, in com/event.rs, was
\* answered from the ready queue) and returns exactly the first item delivered
\* after that poll, not another value and not the end of the sequence.
C11_ParkThenThatItem ==
    (UsesTask(itKind) /\ itRet.firstPoll = "notready" /\ itRet.sentAfter # 0) =>
        /\ itRet.parks >= 1
        /\ itRet.waits + itRet.fast >= 1
        /\ itKind = "SoundCoreEventIterator" => itRet.waits >= 1
        /\ itRet.kind \in {"item", "err"}
        /\ itRet.id = itRet.sentAfter

C11_Witness ==
    /\ itKind = "ComEventIterator"
    /\ itRet.firstPoll = "notready"
    /\ itRet.sentAfter = 1
    /\ itRet.kind = "item"
    /\ itRet.id = 1
    /\ itRet.waits >= 1

\* C12: a next() called while the stream had an item, an error or its end
\* available returns just that, having entered no park and no wait; and the
\* consumer is inside park only after a poll of this call that said not ready.
C12_ReadyWithoutPark ==
    /\ itRet.avail.kind # "none" =>
           /\ itRet.kind = itRet.avail.kind
           /\ itRet.id = itRet.avail.id
           /\ itRet.parks = 0
           /\ itRet.waits = 0
    /\ (ipc # "idle" /\ callAvail.kind # "none") => nParks = 0 /\ nWaits = 0
    /\ ipc \in {"park", "wait", "woken"} => lastPoll = "notready"

C12_Witness ==
    /\ itKind = "SoundCoreOld"
    /\ itRet.avail.kind = "item"
    /\ itRet.kind = "item"
    /\ itRet.parks = 0
    /\ nSent = 2

Buffered(i) == \E k \in 1..Len(events) : events[k].id = i
Returned(i) == nSent >= i /\ ~Buffered(i)

InPark == ipc \in {"park", "wait", "woken"}

\* C34: no wake-up is lost. Under fair scheduling every item sent to a
\* ComEventIterator / SoundCoreEventIterator is eventually returned by next()
\* (unless the wait itself failed, which panics), whatever the interleaving of
\* send and notify with register, try_recv and park; next() does not stay in
\* park while an item is in the channel; and a next() returns a value only
\* from a poll that found one: a wake-up alone returns nothing.
C34_NoLostWakeup ==
    /\ \A i \in 1..MaxItems :
           (UsesTask(itKind) /\ nSent >= i) ~> (Returned(i) \/ ipc = "panicked")
    /\ (UsesTask(itKind) /\ InPark /\ events # <<>>) ~> ~InPark
    /\ [](UsesTask(itKind) /\ InPark => lastPoll = "notready")
    /\ [](UsesTask(itKind) /\ itRet.kind \in {"item", "err"} => Returned(itRet.id))

\* an item was sent while the consumer was waiting for it and next() returned it
C34_Witness ==
    /\ itKind = "SoundCoreEventIterator"
    /\ itRet.kind = "item"
    /\ itRet.sentAfter = 2
    /\ itRet.waits >= 1
    /\ Returned(2)
    /\ ipc = "idle"

----------------------------------------------------------------------------
\* Feature and parameter cursors: SoundCoreFeatureIterator / SoundCoreParameterIterator

\* Bound of the cursor model
MaxProbes == 4

\* ids the driver may put into the info it returns (feature_id / param.feature);
\* a failed call leaves the zeroed buffer
ItemIds == {0, 8, 9}

\* `Err(..) if code == E_FAIL => return None`: the end-of-collection status
IsEndStatusNever(code) == FALSE
IsEndStatus(code) == code = E_FAIL

\* `self.index += 1` is reached only past the `return`s of a failed probe
IndexAfterAny(i, ok) == i + 1
IndexAfter(i, ok) == IF ok THEN i + 1 ELSE i

\* `0 => None` of `match info.feature_id` / `match info.param_id`: a probe
\* answered with success and id zero is the end of the sequence
IsNoItemNever(id) == FALSE
IsNoItem(id) == id = 0

CurInit == curKind \in {"feature", "parameter"} /\ CurFresh

notCur == <<comVars, cbVars, brVars, itVars, parVars, extVars>>

\* SoundCoreFeatureIterator::next / SoundCoreParameterIterator::next. hr, id:
\* what the driver's EnumFeatures / EnumParams returns for the probed index.
CursorNext(hr, id) ==
    /\ curLive
    /\ Len(probes) < MaxProbes
    /\ check(hr).ok \/ id = 0
    /\ probes' = Append(probes, [index |-> index, hr |-> hr, id |-> id])
    /\ LET r == check(hr)
       IN IF ~r.ok
          THEN /\ results' = Append(results,
                      IF IsEndStatus(r.code)
                      THEN [kind |-> "None", id |-> 0, index |-> index, code |-> S_OK]
                      ELSE [kind |-> "Err", id |-> 0, index |-> index, code |-> r.code])
               /\ index' = IndexAfter(index, r.ok)
               /\ UNCHANGED rootRefs
          ELSE /\ index' = IndexAfter(index, r.ok)
               /\ IF IsNoItem(id)
                  THEN /\ results' = Append(results,
                              [kind |-> "None", id |-> 0, index |-> index, code |-> S_OK])
                       /\ UNCHANGED rootRefs
                  ELSE \* SoundCoreFeature::new / SoundCoreParameter::new: AddRef
                       /\ results' = Append(results,
                              [kind |-> "Ok", id |-> id, index |-> index, code |-> S_OK])
                       /\ rootRefs' = rootRefs + 1
    /\ UNCHANGED <<curKind, curLive>>
    /\ UNCHANGED notCur

\* Drop for SoundCoreFeature / SoundCoreParameter: an item the cursor yielded is dropped
CursorItemDrop ==
    /\ rootRefs > (IF curLive THEN 1 ELSE 0)
    /\ rootRefs' = rootRefs - 1
    /\ UNCHANGED <<curKind, index, probes, results, curLive>>
    /\ UNCHANGED notCur

\* Drop for SoundCoreFeatureIterator / SoundCoreParameterIterator
CursorDrop ==
    /\ curLive
    /\ curLive' = FALSE
    /\ rootRefs' = rootRefs - 1
    /\ UNCHANGED <<curKind, index, probes, results>>
    /\ UNCHANGED notCur

CurNext ==
    \/ \E hr \in DriverResults, id \in ItemIds : CursorNext(hr, id)
    \/ CursorItemDrop
    \/ CursorDrop

InitCursor == CurInit /\ ComParked /\ CbParked /\ BrParked /\ ItParked /\ ParParked
                  /\ ExtParked

SpecCursor == InitCursor /\ [][CurNext]_vars

\* a step is a probe the driver answered with success and id zero
ZeroIdProbe ==
    /\ Len(probes') = Len(probes) + 1
    /\ probes'[Len(probes')].hr >= 0
    /\ probes'[Len(probes')].id = 0

\* C38: a next() whose probe the driver answered with success and an id of
\* zero returns None: it yields no item and no error, and builds no
\* SoundCoreFeature / SoundCoreParameter, so no reference on the root object
\* is added.
C38_ZeroIdIsNone ==
    [][ZeroIdProbe =>
           /\ Len(results') = Len(results) + 1
           /\ results'[Len(results')].kind = "None"
           /\ results'[Len(results')].id = 0
           /\ rootRefs' = rootRefs]_vars

\* an item was yielded and is held; the next probe succeeded with id zero
C38_Witness ==
    /\ Len(probes) = 2
    /\ probes[1].hr = S_OK /\ probes[1].id # 0
    /\ probes[2].hr = S_OK /\ probes[2].id = 0
    /\ results[2].kind = "None"
    /\ rootRefs = 2
    /\ curLive

C16_ErrorTerminates ==
    \A k \in 1..Len(probes) :
        (/\ probes[k].hr < 0
         /\ probes[k].hr # E_FAIL
         /\ \A i \in 1..(k - 1) : probes[i].hr >= 0 /\ probes[i].id # 0) =>
            /\ \A i \in 1..(k - 1) : results[i].kind = "Ok"
            /\ results[k].kind = "Err"
            /\ \A j \in (k + 1)..Len(results) : results[j].kind = "None"


\* successful probes among the first n
Successes(n) == Cardinality({i \in 1..n : probes[i].hr >= 0})

\* C26: the cursor's index is 0 at construction, the number of successful
\* probes so far at any time, and each probe is made at the number of
\* successful probes before it: a failed probe leaves the index alone, the
\* successful probes run through 0, 1, 2, ... without a gap, and the index
\* never goes down.
C26_IndexCountsSuccesses ==
    /\ probes = <<>> => index = 0
    /\ index = Successes(Len(probes))
    /\ \A n \in 1..Len(probes) :
           /\ probes[n].index = Successes(n - 1)
           /\ probes[n].index <= index
           /\ \A m \in 1..(n - 1) : probes[m].index <= probes[n].index
           /\ (n > 1 /\ probes[n - 1].hr < 0) => probes[n].index = probes[n - 1].index
           /\ (n > 1 /\ probes[n - 1].hr >= 0) => probes[n].index = probes[n - 1].index + 1

C26_Witness ==
    /\ Len(probes) = 4
    /\ probes[1].hr >= 0 /\ probes[1].index = 0
    /\ probes[2].hr = E_INVALIDARG /\ probes[2].index = 1
    /\ probes[3].hr >= 0 /\ probes[3].index = 1
    /\ probes[4].hr = E_FAIL /\ probes[4].index = 2
    /\ index = 2

----------------------------------------------------------------------------
\* SoundCoreParameter::get / set and the wire form of a value

\* Bound of the parameter model
MaxParCalls == 2

\* a u32 as its two 16-bit halves
Word(hi, lo) == [hi |-> hi, lo |-> lo]

\* sample 32-bit patterns: 0, 1, 0x7fffffff, 0x80000000, 0xffffffff
U32s == {Word(0, 0), Word(0, 1), Word(32767, 65535), Word(32768, 0),
         Word(65535, 65535)}

\* sample f32 bit patterns: those, and 1.0 (0x3f800000) and a NaN (0x7fc00000)
FloatBits == U32s \cup {Word(16256, 0), Word(32704, 0)}

\* sample i32 values: i32::MIN, -1, 0, 1, i32::MAX
I32s == {-2147483647 - 1, -1, 0, 1, 2147483647}

\* SoundCoreParamValue other than None. Float(f) is held by the bits of f,
\* Bool(b) as 1 (true) or 0 (false).
Values ==
    [type : {"Float"}, v : FloatBits] \cup [type : {"Bool"}, v : {0, 1}]
        \cup [type : {"U32"}, v : U32s] \cup [type : {"I32"}, v : I32s]

\* ParamValue as the driver may hold it; kind 4 is a tag the code does not know
ParamValues == [kind : 0..4, value : U32s]

\* param_type of the parameter: 5 is variable size
ParamTypes == {0, 1, 2, 3, 5}

\* what GetParamValue / SetParamValue may return
ParamResults == {S_OK, E_ACCESSDENIED, E_FAIL}

\* mem::transmute between i32 and u32: two's complement reinterpretation
transmute_i32_u32(i) == Word((i \div 65536) % 65536, i % 65536)
transmute_u32_i32_saturating(u) ==
    IF u.hi >= 32768 THEN 2147483647 ELSE u.hi * 65536 + u.lo
transmute_u32_i32(u) ==
    IF u.hi >= 32768 THEN (u.hi - 65536) * 65536 + u.lo ELSE u.hi * 65536 + u.lo

\* the ParamValue set() builds from its argument
param_value(value) ==
    [kind |-> CASE value.type = "Float" -> 0
                [] value.type = "Bool" -> 1
                [] value.type = "U32" -> 2
                [] value.type = "I32" -> 3
                [] OTHER -> 4,
     value |-> CASE value.type = "Float" -> value.v
                 [] value.type = "Bool" ->
                        (IF value.v = 1 THEN Word(65535, 65535) ELSE Word(0, 0))
                 [] value.type = "U32" -> value.v
                 [] value.type = "I32" -> transmute_i32_u32(value.v)
                 [] OTHER -> Word(0, 0)]

convert_param_value(value) ==
    CASE value.kind = 0 -> [type |-> "Float", v |-> value.value]
      [] value.kind = 1 ->
             [type |-> "Bool", v |-> IF value.value # Word(0, 0) THEN 1 ELSE 0]
      [] value.kind = 2 -> [type |-> "U32", v |-> value.value]
      [] value.kind = 3 -> [type |-> "I32", v |-> transmute_u32_i32(value.value)]
      [] OTHER -> NoValue

\* `if self.kind == 5`: variable size, not supported by get()
IsVarSizeNever(kind) == FALSE
IsVarSize(kind) == kind = 5

\* `Err(..) if code == E_ACCESSDENIED`: the parameter is not applicable now
IsAccessDeniedNever(code) == FALSE
IsAccessDenied(code) == code = E_ACCESSDENIED

\* the `_ => panic!("tried to set parameter with nothing")` arm of set()
SetPanicsNever(value) == FALSE
SetPanics(value) == value.type = "None"

\* param_attributes as the driver may report them: bit 0 read-only, bit 1 some
\* other attribute
Attributes == 0..3

\* `parameter.attributes & 1`: the read-only bit
ReadOnly(attributes) == attributes % 2 = 1

\* whether set() itself looks at the attributes before calling the driver: it
\* does not
SetRefusesReadOnly(attributes) == ReadOnly(attributes)
SetRefuses(attributes) == FALSE

ParInit ==
    /\ parKind \in ParamTypes
    /\ parAttr \in Attributes
    /\ drvValue \in ParamValues
    /\ ParFresh

notPar == <<comVars, cbVars, brVars, itVars, curVars, extVars>>

\* SoundCoreParameter::get. hr: what the driver's GetParamValue returns; on
\* success the driver writes the value it holds.
ParamGet(hr) ==
    /\ ~parPanicked
    /\ IF IsVarSize(parKind)
       THEN /\ hr = S_OK
            /\ parRet' = [op |-> "get", arg |-> NoValue, hr |-> S_OK, calls |-> 0,
                          result |-> "Ok", value |-> NoValue, code |-> S_OK]
            /\ UNCHANGED getCalls
       ELSE /\ getCalls + setCalls < MaxParCalls
            /\ getCalls' = getCalls + 1
            /\ LET r == check(hr)
               IN parRet' =
                      IF r.ok
                      THEN [op |-> "get", arg |-> NoValue, hr |-> hr, calls |-> 1,
                            result |-> "Ok", value |-> convert_param_value(drvValue),
                            code |-> S_OK]
                      ELSE IF IsAccessDenied(r.code)
                      THEN [op |-> "get", arg |-> NoValue, hr |-> hr, calls |-> 1,
                            result |-> "Ok", value |-> NoValue, code |-> S_OK]
                      ELSE [op |-> "get", arg |-> NoValue, hr |-> hr, calls |-> 1,
                            result |-> "Err", value |-> NoValue, code |-> r.code]
    /\ UNCHANGED <<parKind, parAttr, drvValue, setArg, setCalls, parPanicked>>
    /\ UNCHANGED notPar

\* SoundCoreParameter::set(value). hr: what the driver's SetParamValue returns;
\* a driver that accepts the call holds the new ParamValue.
ParamSet(value, hr) ==
    /\ ~parPanicked
    /\ IF SetPanics(value)
       THEN /\ hr = S_OK
            /\ parPanicked' = TRUE
            /\ parRet' = [op |-> "set", arg |-> value, hr |-> S_OK, calls |-> 0,
                          result |-> "panic", value |-> NoValue, code |-> S_OK]
            /\ UNCHANGED <<drvValue, setArg, setCalls>>
       ELSE IF SetRefuses(parAttr)
       THEN /\ hr = E_ACCESSDENIED
            /\ parRet' = [op |-> "set", arg |-> value, hr |-> hr, calls |-> 0,
                          result |-> "Err", value |-> NoValue, code |-> hr]
            /\ UNCHANGED <<drvValue, setArg, setCalls, parPanicked>>
       ELSE /\ getCalls + setCalls < MaxParCalls
            /\ setCalls' = setCalls + 1
            /\ LET r == check(hr)
               IN /\ drvValue' = IF r.ok THEN param_value(value) ELSE drvValue
                  /\ setArg' = IF r.ok THEN value ELSE setArg
                  /\ parRet' = [op |-> "set", arg |-> value, hr |-> hr, calls |-> 1,
                                result |-> IF r.ok THEN "Ok" ELSE "Err",
                                value |-> NoValue,
                                code |-> IF r.ok THEN S_OK ELSE r.code]
            /\ UNCHANGED parPanicked
    /\ UNCHANGED <<parKind, parAttr, getCalls>>
    /\ UNCHANGED notPar

ParNext ==
    \/ \E hr \in ParamResults : ParamGet(hr)
    \/ \E value \in Values \cup {NoValue}, hr \in ParamResults : ParamSet(value, hr)

InitParam == ParInit /\ ComParked /\ CbParked /\ BrParked /\ ItParked /\ CurParked
                 /\ ExtParked

SpecParam == InitParam /\ [][ParNext]_vars

\* C17: get() on a parameter of kind 5 returns Ok(None) and makes no
\* GetParamValue call; no such call is ever made for that parameter.
C17_VarSizeGetIsAbsent ==
    parKind = 5 =>
        /\ getCalls = 0
        /\ parRet.op = "get" =>
               /\ parRet.result = "Ok"
               /\ parRet.value = NoValue
               /\ parRet.calls = 0

C17_Witness ==
    /\ parKind = 5
    /\ parRet.op = "get"
    /\ parRet.result = "Ok"
    /\ setCalls = 1

C19_SetAbsentPanics ==
    (parRet.op = "set" /\ parRet.arg = NoValue) =>
        /\ parRet.result = "panic"
        /\ parRet.calls = 0
        /\ parPanicked

C19_Witness ==
    /\ parRet.op = "set"
    /\ parRet.arg = NoValue
    /\ parPanicked
    /\ setCalls = 0

\* C20: the ParamValue a successful set(v) hands to the driver has tag 0, 1, 2,
\* 3 for Float, Bool, U32, I32, with a Float's or U32's bits unchanged, a Bool
\* as 0xffffffff / 0 and an I32 as its two's complement; and a get() that reads
\* that ParamValue back returns v.
C20_RoundTrip ==
    /\ (parRet.op = "set" /\ parRet.result = "Ok") =>
           /\ setArg = parRet.arg
           /\ drvValue.kind = (CASE setArg.type = "Float" -> 0
                                 [] setArg.type = "Bool" -> 1
                                 [] setArg.type = "U32" -> 2
                                 [] setArg.type = "I32" -> 3)
           /\ drvValue.value.hi \in 0..65535 /\ drvValue.value.lo \in 0..65535
           /\ setArg.type \in {"Float", "U32"} => drvValue.value = setArg.v
           /\ setArg.type = "Bool" =>
                  drvValue.value = (IF setArg.v = 1 THEN [hi |-> 65535, lo |-> 65535]
                                    ELSE [hi |-> 0, lo |-> 0])
           /\ setArg.type = "I32" =>
                  /\ drvValue.value.hi >= 32768 <=> setArg.v < 0
                  /\ setArg.v = (IF setArg.v < 0 THEN drvValue.value.hi - 65536
                                 ELSE drvValue.value.hi) * 65536 + drvValue.value.lo
    /\ (/\ parRet.op = "get" /\ parRet.calls = 1 /\ parRet.hr >= 0
        /\ setArg # NoValue) =>
           parRet.value = setArg

C20_Witness ==
    /\ parRet.op = "get"
    /\ setArg = [type |-> "I32", v |-> -1]
    /\ drvValue = [kind |-> 3, value |-> [hi |-> 65535, lo |-> 65535]]
    /\ parRet.value = [type |-> "I32", v |-> -1]

\* C35: a set() with a value other than None issues exactly one SetParamValue
\* call whatever the parameter's attributes are (the read-only bit included),
\* returns Ok exactly when that call succeeded and otherwise an error with the
\* driver's code unchanged; it does not call again after a failure.
C35_SetIsOneCall ==
    (parRet.op = "set" /\ parRet.arg # NoValue) =>
        /\ parRet.calls = 1
        /\ setCalls >= 1
        /\ parRet.result \in {"Ok", "Err"}
        /\ parRet.result = "Ok" <=> parRet.hr >= 0
        /\ parRet.result = "Err" => parRet.code = parRet.hr

\* a read-only parameter's set() reached the driver: once refused, once accepted
C35_Witness ==
    /\ ReadOnly(parAttr)
    /\ parRet.op = "set"
    /\ parRet.arg = [type |-> "Bool", v |-> 1]
    /\ parRet.result = "Ok"
    /\ drvValue = [kind |-> 1, value |-> [hi |-> 65535, lo |-> 65535]]
    /\ setCalls = 2
    /\ parRet.calls = 1
    /\ ~parPanicked

----------------------------------------------------------------------------
(***************************************************************************)
(* set(device_id, configuration, mute) of src/src/lib.rs: the endpoint is  *)
(* muted around set_internal when `mute` is set and it was not muted.      *)
(***************************************************************************)

\* configured parameters the device's features can offer to the write loop
MaxWrites == 2

Configurations ==
    {c \in [creative : BOOLEAN, params : 0..MaxWrites, volume : BOOLEAN] :
        ~c.creative => c.params = 0}

notSet == <<comVars, cbVars, brVars, itVars, curVars, parVars, rootVars, coVars, mVars>>

\* `mute && !endpoint.get_mute()?`
MuteUnmuteAlways(mute, muted) == mute
MuteUnmute(mute, muted) == mute /\ ~muted

\* one call on the endpoint or on a parameter, with its outcome
Call(name, ok) == [call |-> name, ok |-> ok]

\* set() returns (or unwinds) with this result
SetEnds(result) ==
    /\ setResult' = result
    /\ spc' = "done"

SetInit ==
    /\ setMute \in BOOLEAN
    /\ setCfg \in Configurations
    /\ devMuted \in BOOLEAN
    /\ SetFresh

\* get_endpoint(device_id)?
SetGetEndpoint(ok) ==
    /\ spc = "endpoint"
    /\ IF ok
       THEN /\ spc' = IF setMute THEN "get_mute" ELSE "internal"
            /\ UNCHANGED setResult
       ELSE SetEnds("Err")
    /\ UNCHANGED <<setMute, setCfg, devMuted, wasMuted, muteUnmute, pending, applied,
                   setLog, notSet>>

\* endpoint.get_mute()?, evaluated only when `mute` is set
SetGetMute(ok) ==
    /\ spc = "get_mute"
    /\ setLog' = Append(setLog, Call("get_mute", ok))
    /\ IF ok
       THEN /\ muteUnmute' = MuteUnmute(setMute, devMuted)
            /\ spc' = IF MuteUnmute(setMute, devMuted) THEN "mute" ELSE "internal"
            /\ UNCHANGED setResult
       ELSE /\ SetEnds("Err")
            /\ UNCHANGED muteUnmute
    /\ UNCHANGED <<setMute, setCfg, devMuted, wasMuted, pending, applied, notSet>>

\* if mute_unmute { endpoint.set_mute(true)?; }
SetMuteTrue(ok) ==
    /\ spc = "mute"
    /\ setLog' = Append(setLog, Call("set_mute(true)", ok))
    /\ IF ok
       THEN /\ devMuted' = TRUE
            /\ spc' = "internal"
            /\ UNCHANGED setResult
       ELSE /\ SetEnds("Err")
            /\ UNCHANGED devMuted
    /\ UNCHANGED <<setMute, setCfg, wasMuted, muteUnmute, pending, applied, notSet>>

\* set_internal, creative part up to the feature loop: endpoint.id()?,
\* endpoint.clsid()?, SoundCore::for_device(..)?; an unwrap() below these panics
SetInternalOpen(out) ==
    /\ spc = "internal"
    /\ IF ~setCfg.creative
       THEN /\ spc' = "volume"
            /\ UNCHANGED <<applied, setResult>>
       ELSE CASE out = "ok" -> /\ spc' = "features"
                               /\ UNCHANGED <<applied, setResult>>
              [] out = "err" -> /\ applied' = "Err"
                                /\ spc' = "unmute"
                                /\ UNCHANGED setResult
              [] out = "panic" -> /\ SetEnds("panic")
                                  /\ UNCHANGED applied
    /\ UNCHANGED <<setMute, setCfg, devMuted, wasMuted, muteUnmute, pending, setLog,
                   notSet>>

\* `if let Some(value) = feature_table.get(&parameter.description)`: the only
\* test set_internal makes before it writes a parameter; the attributes are
\* not looked at
WritesSkipReadOnly(configured, ro) == configured /\ ~ro
WritesParameter(configured, ro) == configured

\* `if let Err(error) = parameter.set(value) { error!(..) }`: the result of the
\* write is logged, never returned
WriteFailureAborts(ok) == ~ok
WriteAborts(ok) == FALSE

\* parameter.set(value) on a parameter whose read-only bit is ro
Write(ok, ro) == [call |-> "parameter.set", ok |-> ok, ro |-> ro]

\* one step of the loops over core.features(0) and feature.parameters():
\* a configured parameter is written (a failed write is only logged), the
\* enumeration (cursor_err) or the coercion (coerce_err) fails (`?`), an
\* unwrap() panics, or the loops end. ro: the read-only bit of the parameter
\* the cursor yielded.
SetFeatureStep(out, ro) ==
    /\ spc = "features"
    /\ CASE out \in {"write_ok", "write_err"} ->
                /\ pending > 0
                /\ WritesParameter(TRUE, ro)
                /\ pending' = pending - 1
                /\ setLog' = Append(setLog, Write(out = "write_ok", ro))
                /\ IF WriteAborts(out = "write_ok")
                   THEN /\ applied' = "Err"
                        /\ spc' = "unmute"
                        /\ UNCHANGED setResult
                   ELSE UNCHANGED <<applied, setResult, spc>>
         [] out \in {"cursor_err", "coerce_err"} ->
                /\ applied' = "Err"
                /\ spc' = "unmute"
                /\ UNCHANGED <<pending, setLog, setResult>>
         [] out = "panic" ->
                /\ SetEnds("panic")
                /\ UNCHANGED <<pending, setLog, applied>>
         [] out = "end" ->
                /\ spc' = "volume"
                /\ UNCHANGED <<pending, setLog, applied, setResult>>
    /\ UNCHANGED <<setMute, setCfg, devMuted, wasMuted, muteUnmute, notSet>>

\* set_internal, endpoint part: endpoint.set_volume(v)? when a volume is
\* configured, then Ok(())
SetVolume(ok) ==
    /\ spc = "volume"
    /\ IF setCfg.volume
       THEN /\ setLog' = Append(setLog, Call("set_volume", ok))
            /\ applied' = IF ok THEN "Ok" ELSE "Err"
       ELSE /\ applied' = "Ok"
            /\ UNCHANGED setLog
    /\ spc' = "unmute"
    /\ UNCHANGED <<setMute, setCfg, devMuted, wasMuted, muteUnmute, pending, setResult,
                   notSet>>

\* if mute_unmute { endpoint.set_mute(false)?; } result
SetUnmute(ok) ==
    /\ spc = "unmute"
    /\ IF muteUnmute
       THEN /\ setLog' = Append(setLog, Call("set_mute(false)", ok))
            /\ devMuted' = IF ok THEN FALSE ELSE devMuted
            /\ SetEnds(IF ok THEN applied ELSE "Err")
       ELSE /\ SetEnds(applied)
            /\ UNCHANGED <<setLog, devMuted>>
    /\ UNCHANGED <<setMute, setCfg, wasMuted, muteUnmute, pending, applied, notSet>>

SetNext ==
    \/ \E ok \in BOOLEAN : SetGetEndpoint(ok)
    \/ \E ok \in BOOLEAN : SetGetMute(ok)
    \/ \E ok \in BOOLEAN : SetMuteTrue(ok)
    \/ \E out \in {"ok", "err", "panic"} : SetInternalOpen(out)
    \/ \E out \in {"write_ok", "write_err", "cursor_err", "coerce_err", "panic", "end"},
          ro \in BOOLEAN : SetFeatureStep(out, ro)
    \/ \E ok \in BOOLEAN : SetVolume(ok)
    \/ \E ok \in BOOLEAN : SetUnmute(ok)

InitSet == SetInit /\ ComParked /\ CbParked /\ BrParked /\ ItParked /\ CurParked
               /\ ParParked /\ RootParked /\ CoParked /\ MergeParked

SpecSet == InitSet /\ [][SetNext]_vars

\* positions of the log holding the named call, and those holding a write
At(name) == {i \in 1..Len(setLog) : setLog[i].call = name}

Writes == At("parameter.set") \cup At("set_volume")

\* C23 as stated: once set() has come back, with `mute` set and get_mute having
\* reported a device that was not muted on entry, set_mute(true) was issued
\* before every write and set_mute(false) after them.
C23_AlwaysBracketed ==
    (/\ spc = "done" /\ setMute /\ ~wasMuted
     /\ \E g \in At("get_mute") : setLog[g].ok) =>
        /\ At("set_mute(true)") # {}
        /\ At("set_mute(false)") # {}
        /\ \A w \in Writes : \A m \in At("set_mute(true)") : m < w
        /\ \A w \in Writes : \A u \in At("set_mute(false)") : w < u

\* C23: a device muted on entry sees no set_mute call and stays muted; without
\* `mute` there is no get_mute and no set_mute call; with `mute` on a device not
\* muted on entry, every write follows the one set_mute(true) and precedes the
\* one set_mute(false), and once get_mute and set_mute(true) succeeded and
\* set_internal returned (Ok or Err, not a panic) set_mute(false) is the last
\* call of set(); a failed get_mute or set_mute(true) ends set() with that
\* error, no write and no set_mute(false).
C23_MuteBracket ==
    /\ wasMuted => (At("set_mute(true)") = {} /\ At("set_mute(false)") = {} /\ devMuted)
    /\ ~setMute => (At("get_mute") = {} /\ At("set_mute(true)") = {}
                    /\ At("set_mute(false)") = {})
    /\ Cardinality(At("set_mute(true)")) <= 1
    /\ Cardinality(At("set_mute(false)")) <= 1
    /\ \A w \in Writes : \A u \in At("set_mute(false)") : w < u
    /\ (setMute /\ ~wasMuted) =>
           /\ \A w \in Writes : \E m \in At("set_mute(true)") : m < w /\ setLog[m].ok
           /\ \A i \in At("get_mute") \cup At("set_mute(true)") :
                  ~setLog[i].ok => (/\ i = Len(setLog)
                                    /\ spc = "done" /\ setResult = "Err"
                                    /\ Writes = {} /\ At("set_mute(false)") = {})
           /\ (/\ spc = "done" /\ setResult # "panic"
               /\ \E m \in At("set_mute(true)") : setLog[m].ok) =>
                  /\ At("set_mute(false)") = {Len(setLog)}
                  /\ applied \in {"Ok", "Err"}
                  /\ setLog[Len(setLog)].ok => (setResult = applied /\ ~devMuted)

\* muted and unmuted around a write although applying the configuration failed
C23_Witness ==
    /\ spc = "done"
    /\ setMute /\ ~wasMuted
    /\ applied = "Err"
    /\ Len(setLog) = 4
    /\ setLog[2] = Call("set_mute(true)", TRUE)
    /\ setLog[3].call = "parameter.set"
    /\ setLog[4] = Call("set_mute(false)", TRUE)
    /\ setResult = "Err"

\* C36 as stated, for the path that applies a configuration: set_internal never
\* calls SoundCoreParameter::set on a parameter whose attribute bit 0
\* (read-only) is set.
C36_NoWriteToReadOnly ==
    \A w \in At("parameter.set") : ~setLog[w].ro

\* a step of set() is a write when it appends a parameter.set to the log
IsWrite == Len(setLog') = Len(setLog) + 1 /\ setLog'[Len(setLog')].call = "parameter.set"

\* C37: inside set_internal a write the driver refused is only logged: the
\* loops go on (every configured parameter still to come can be written), the
\* volume is applied afterwards and set_internal returns Ok when that worked.
\* A cursor error item or a value that cannot be coerced ends set_internal at
\* that point with an error: nothing is appended to the calls made so far, no
\* further parameter is written and the volume is not written.
C37_WriteFailureGoesOn ==
    /\ [][/\ IsWrite => (/\ spc' = "features" /\ applied' = "none"
                          /\ setResult' = "none")
          /\ (spc = "features" /\ applied' = "Err") =>
                 (spc' = "unmute" /\ setLog' = setLog)
          /\ applied = "Err" =>
                 (/\ ~IsWrite
                  /\ At("set_volume")' = At("set_volume")
                  /\ \A i \in 1..Len(setLog) : setLog'[i] = setLog[i])
          /\ (spc = "volume" /\ spc' # spc) =>
                 (/\ setCfg.volume => At("set_volume")' = {Len(setLog')}
                  /\ applied' = IF setCfg.volume /\ ~setLog'[Len(setLog')].ok
                                THEN "Err" ELSE "Ok")]_vars
    /\ [](spc = "features" /\ pending > 0 =>
              ENABLED (\E ro \in BOOLEAN : SetFeatureStep("write_ok", ro)))
    /\ [](applied = "Err" /\ At("set_volume") # {} =>
              \A v \in At("set_volume") : ~setLog[v].ok)

\* the first write was refused, the second made, the volume applied: Ok
C37_Witness ==
    /\ spc = "done"
    /\ setResult = "Ok"
    /\ Len(setLog) = 3
    /\ setLog[1].call = "parameter.set" /\ ~setLog[1].ok
    /\ setLog[2].call = "parameter.set" /\ setLog[2].ok
    /\ setLog[3] = Call("set_volume", TRUE)

-----------------------------------------------------------------------------
(***************************************************************************)
(* The owners of the root ISoundCore object: the SoundCore wrapper and     *)
(* every cursor, feature and parameter made from it. Each AddRefs the raw  *)
(* pointer it copies when it is built and Releases it in its Drop.         *)
(***************************************************************************)

\* live cursors, features and parameters the model lets exist at once
MaxOwners == 4

\* constructions allowed to panic
MaxRootPanics == 1

notRoot == <<comVars, cbVars, brVars, itVars, curVars, parVars, setVars, coVars, mVars>>

Owners == nFeatCur + nFeat + nParCur + nPar

\* ISoundCore::AddRef in the constructors, ISoundCore::Release in the Drops
RootAddRefSkipped(r) == r
RootAddRef(r) == r + 1

RootRelease(r) == r - 1

\* a Drop: one Release, which finalizes the object when it reaches zero
RootDropped ==
    /\ rootCount' = RootRelease(rootCount)
    /\ rootFinal' = IF RootRelease(rootCount) = 0 THEN rootFinal + 1 ELSE rootFinal

\* SoundCore::features(context) -> SoundCoreFeatureIterator::new
CoreFeatures ==
    /\ scLive
    /\ Owners < MaxOwners
    /\ nFeatCur' = nFeatCur + 1
    /\ rootCount' = RootAddRef(rootCount)
    /\ UNCHANGED <<scLive, nFeat, nParCur, nPar, rootFinal, rootPanics, notRoot>>

\* a feature cursor yields Some(Ok(SoundCoreFeature::new(..))): the description
\* and version are decoded (from_utf8(..).unwrap()) before the AddRef
FeatureNew(utf8) ==
    /\ nFeatCur > 0
    /\ Owners < MaxOwners
    /\ IF utf8
       THEN /\ nFeat' = nFeat + 1
            /\ rootCount' = RootAddRef(rootCount)
            /\ UNCHANGED rootPanics
       ELSE /\ rootPanics < MaxRootPanics
            /\ rootPanics' = rootPanics + 1
            /\ UNCHANGED <<nFeat, rootCount>>
    /\ UNCHANGED <<scLive, nFeatCur, nParCur, nPar, rootFinal, notRoot>>

\* SoundCoreFeature::parameters -> SoundCoreParameterIterator::new
FeatureParameters ==
    /\ nFeat > 0
    /\ Owners < MaxOwners
    /\ nParCur' = nParCur + 1
    /\ rootCount' = RootAddRef(rootCount)
    /\ UNCHANGED <<scLive, nFeatCur, nFeat, nPar, rootFinal, rootPanics, notRoot>>

\* a parameter cursor yields Some(Ok(SoundCoreParameter::new(..)))
ParameterNew(utf8) ==
    /\ nParCur > 0
    /\ Owners < MaxOwners
    /\ IF utf8
       THEN /\ nPar' = nPar + 1
            /\ rootCount' = RootAddRef(rootCount)
            /\ UNCHANGED rootPanics
       ELSE /\ rootPanics < MaxRootPanics
            /\ rootPanics' = rootPanics + 1
            /\ UNCHANGED <<nPar, rootCount>>
    /\ UNCHANGED <<scLive, nFeatCur, nFeat, nParCur, rootFinal, notRoot>>

\* Drop for SoundCoreFeatureIterator
FeatureCursorDrop ==
    /\ nFeatCur > 0
    /\ nFeatCur' = nFeatCur - 1
    /\ RootDropped
    /\ UNCHANGED <<scLive, nFeat, nParCur, nPar, rootPanics, notRoot>>

\* Drop for SoundCoreFeature
FeatureDrop ==
    /\ nFeat > 0
    /\ nFeat' = nFeat - 1
    /\ RootDropped
    /\ UNCHANGED <<scLive, nFeatCur, nParCur, nPar, rootPanics, notRoot>>

\* Drop for SoundCoreParameterIterator
ParameterCursorDrop ==
    /\ nParCur > 0
    /\ nParCur' = nParCur - 1
    /\ RootDropped
    /\ UNCHANGED <<scLive, nFeatCur, nFeat, nPar, rootPanics, notRoot>>

\* Drop for SoundCoreParameter
ParameterDrop ==
    /\ nPar > 0
    /\ nPar' = nPar - 1
    /\ RootDropped
    /\ UNCHANGED <<scLive, nFeatCur, nFeat, nParCur, rootPanics, notRoot>>

\* the SoundCore wrapper is dropped: Drop for its ComObject handle
CoreDrop ==
    /\ scLive
    /\ scLive' = FALSE
    /\ RootDropped
    /\ UNCHANGED <<nFeatCur, nFeat, nParCur, nPar, rootPanics, notRoot>>

RootNext ==
    \/ CoreFeatures
    \/ \E utf8 \in BOOLEAN : FeatureNew(utf8)
    \/ FeatureParameters
    \/ \E utf8 \in BOOLEAN : ParameterNew(utf8)
    \/ FeatureCursorDrop
    \/ FeatureDrop
    \/ ParameterCursorDrop
    \/ ParameterDrop
    \/ CoreDrop

InitRoot == RootFresh /\ ComParked /\ CbParked /\ BrParked /\ ItParked /\ CurParked
                /\ ParParked /\ SetParked /\ CoParked /\ MergeParked

SpecRoot == InitRoot /\ [][RootNext]_vars

\* C27: the root object's count is the SoundCore's own reference plus one per
\* live cursor, feature and parameter; so a feature or parameter keeps it alive
\* without its cursor and without the SoundCore, and it is finalized once,
\* exactly when the last owner is gone.
C27_RootCountMatchesOwners ==
    /\ rootCount = (IF scLive THEN 1 ELSE 0) + nFeatCur + nFeat + nParCur + nPar
    /\ (nFeat + nPar > 0) => (rootCount >= nFeat + nPar /\ rootFinal = 0)
    /\ rootFinal = (IF ~scLive /\ Owners = 0 THEN 1 ELSE 0)

\* a parameter alone, after its cursor, its feature and the SoundCore are gone
C27_Witness ==
    /\ ~scLive
    /\ nFeatCur = 0 /\ nFeat = 0 /\ nParCur = 0
    /\ nPar = 1
    /\ rootCount = 1
    /\ rootFinal = 0

----------------------------------------------------------------------------
(***************************************************************************)
(* coerce_soundcore of src/src/lib.rs: a configured value is brought to    *)
(* the kind of the parameter before set_internal hands it to set().        *)
(***************************************************************************)

notCo == <<comVars, cbVars, brVars, itVars, curVars, parVars, setVars, rootVars, mVars>>

Pow2(n) == 2 ^ n

\* position of the highest set bit of n, 1 <= n < 2^16
Log2(n) == CHOOSE k \in 0..15 : Pow2(k) <= n /\ n < Pow2(k + 1)

\* |i| of an i32 as a 32-bit pattern
Mag(i) ==
    IF i >= 0 THEN Word(i \div 65536, i % 65536)
    ELSE IF i = -2147483647 - 1 THEN Word(32768, 0)
    ELSE Word((-i) \div 65536, (-i) % 65536)

\* `i as f32`: the bits of the f32 nearest to the integer of sign neg and
\* magnitude m (round to nearest, ties to even)
as_f32(neg, m) ==
    IF m = Word(0, 0) THEN Word(0, 0)
    ELSE LET e == IF m.hi > 0 THEN 16 + Log2(m.hi) ELSE Log2(m.lo)
             sign == IF neg THEN 32768 ELSE 0
         IN IF e <= 23
            THEN LET frac == (m.hi * 65536 + m.lo) * Pow2(23 - e) - Pow2(23)
                 IN Word(sign + (127 + e) * 128 + frac \div 65536, frac % 65536)
            ELSE LET shift == e - 23
                     q == m.hi * Pow2(16 - shift) + m.lo \div Pow2(shift)
                     rem == m.lo % Pow2(shift)
                     half == Pow2(shift - 1)
                     up == rem > half \/ (rem = half /\ q % 2 = 1)
                     q1 == IF up THEN q + 1 ELSE q
                     carry == q1 = Pow2(24)
                     e1 == IF carry THEN e + 1 ELSE e
                     frac == IF carry THEN 0 ELSE q1 - Pow2(23)
                 IN Word(sign + (127 + e1) * 128 + frac \div 65536, frac % 65536)

\* the guard `if 0 <= i` of the arm (I32(i), 2)
FitsU32Always(i) == TRUE
FitsU32(i) == 0 <= i

\* the guard `if i <= i32::max_value() as u32` of the arm (U32(i), 3)
FitsI32(u) == u.hi < 32768

Coerced(value) == [ok |-> TRUE, done |-> TRUE, value |-> value]

\* coerce_soundcore(feature, parameter, value), by parameter.kind
coerce_soundcore(kind, value) ==
    CASE value.type = "Float" /\ kind = 0 -> Coerced(value)
      [] value.type = "U32" /\ kind = 0 ->
             Coerced([type |-> "Float", v |-> as_f32(FALSE, value.v)])
      [] value.type = "I32" /\ kind = 0 ->
             Coerced([type |-> "Float", v |-> as_f32(value.v < 0, Mag(value.v))])
      [] value.type = "Bool" /\ kind = 1 -> Coerced(value)
      [] value.type = "U32" /\ kind = 2 -> Coerced(value)
      [] value.type = "I32" /\ kind = 2 /\ FitsU32(value.v) ->
             Coerced([type |-> "U32", v |-> transmute_i32_u32(value.v)])
      [] value.type = "I32" /\ kind = 3 -> Coerced(value)
      [] value.type = "U32" /\ kind = 3 /\ FitsI32(value.v) ->
             Coerced([type |-> "I32", v |-> transmute_u32_i32(value.v)])
      [] OTHER -> [ok |-> FALSE, done |-> TRUE, value |-> NoValue]

CoInit ==
    /\ coValue \in Values \cup {NoValue}
    /\ coKind \in ParamTypes
    /\ CoFresh

\* `let value = &coerce_soundcore(&feature, &parameter, value)?;`
CoerceCall ==
    /\ ~coRet.done
    /\ coRet' = coerce_soundcore(coKind, coValue)
    /\ UNCHANGED <<coValue, coKind, coSet>>
    /\ UNCHANGED notCo

\* `parameter.set(value)` with the coerced value; an Err of the coercion has
\* left set_internal before this call
CoerceSet ==
    /\ coRet.done
    /\ coRet.ok
    /\ ~coSet.called
    /\ coSet' = [called |-> TRUE, panicked |-> SetPanics(coRet.value),
                 wire |-> param_value(coRet.value)]
    /\ UNCHANGED <<coValue, coKind, coRet>>
    /\ UNCHANGED notCo

CoNext ==
    \/ CoerceCall
    \/ CoerceSet

InitCoerce == CoInit /\ ComParked /\ CbParked /\ BrParked /\ ItParked /\ CurParked
                  /\ ParParked /\ SetParked /\ RootParked /\ MergeParked

SpecCoerce == InitCoerce /\ [][CoNext]_vars

\* the integer a U32 or I32 value stands for, as sign and magnitude
IntVal(x) ==
    IF x.type = "U32" THEN [neg |-> FALSE, mag |-> x.v]
    ELSE [neg |-> x.v < 0, mag |-> Mag(x.v)]

\* the variant a parameter of the kind takes
VariantOf(kind) ==
    CASE kind = 0 -> "Float" [] kind = 1 -> "Bool" [] kind = 2 -> "U32"
      [] kind = 3 -> "I32" [] OTHER -> "None"

\* C39: coerce_soundcore returns an error, or a Float, Bool, U32 or I32 whose
\* variant is the one of the parameter's kind (0, 1, 2, 3); a U32 or I32 it
\* returns for a U32 or I32 input stands for the same integer, so an I32 became
\* a U32 only when it was not negative and a U32 an I32 only when it was at
\* most i32::MAX; a Bool, and a Float given as Float, comes back unchanged. It
\* never returns None, so set() is not called with None and does not panic.
C39_CoercionMatchesKind ==
    /\ (coRet.done /\ coRet.ok) =>
           /\ coKind \in 0..3
           /\ coRet.value.type = VariantOf(coKind)
           /\ coRet.value # NoValue
           /\ coRet.value.type \in {"U32", "I32"} =>
                  /\ coValue.type \in {"U32", "I32"}
                  /\ IntVal(coRet.value) = IntVal(coValue)
           /\ (coRet.value.type = "U32" /\ coValue.type = "I32") => coValue.v >= 0
           /\ (coRet.value.type = "I32" /\ coValue.type = "U32") =>
                  coValue.v.hi <= 32767
           /\ coValue.type \in {"Bool", "Float"} => coRet.value = coValue
    /\ (coRet.done /\ ~coRet.ok) => ~coSet.called
    /\ coSet.called =>
           /\ ~coSet.panicked
           /\ coSet.wire.kind = coKind

\* u32 0x7fffffff for an i32 parameter: coerced to I32(i32::MAX) and set
C39_Witness ==
    /\ coValue = [type |-> "U32", v |-> [hi |-> 32767, lo |-> 65535]]
    /\ coKind = 3
    /\ coRet.value = [type |-> "I32", v |-> 2147483647]
    /\ coSet.called
    /\ coSet.wire = [kind |-> 3, value |-> [hi |-> 32767, lo |-> 65535]]

----------------------------------------------------------------------------
(***************************************************************************)
(* SoundCoreAndVolumeEvents of src/src/lib.rs: the SoundCore stream and    *)
(* the volume stream, each behind a Fuse, polled as one stream by the      *)
(* blocking iterator watch_with_volume returns.                            *)
(***************************************************************************)

\* Bound of the merged-stream model: items each source delivers
MaxMerged == 2

notMerge == <<comVars, cbVars, brVars, itVars, curVars, parVars, setVars, rootVars,
              coVars>>

\* poll_next of a fused source stream: try_recv on its channel
SourcePoll(q, ended, fused) ==
    IF fused THEN "None"
    ELSE IF q # <<>> THEN "Some"
    ELSE IF ended THEN "None"
    ELSE "Pending"

\* which source poll_next returns from: `if let Poll::Ready(Some(item)) =
\* sound_core.poll_next(cx) { .. } else if let Poll::Ready(Some(item)) =
\* volume.poll_next(cx) { .. } else { Poll::Pending }`
PreferredVolumeFirst(scReady, volReady) ==
    IF volReady THEN "volume" ELSE IF scReady THEN "sound_core" ELSE "none"
Preferred(scReady, volReady) ==
    IF scReady THEN "sound_core" ELSE IF volReady THEN "volume" ELSE "none"

\* a driver delivers to one of the sources (val: an event, or for the
\* SoundCore stream an event whose query failed)
MergeSend(src, val) ==
    /\ src = "volume" => val = "item"
    /\ IF src = "sound_core"
       THEN /\ ~mScEnded
            /\ mScSent < MaxMerged
            /\ mScSent' = mScSent + 1
            /\ mSc' = Append(mSc, [src |-> src, id |-> mScSent + 1, val |-> val])
            /\ UNCHANGED <<mVol, mVolSent>>
       ELSE /\ ~mVolEnded
            /\ mVolSent < MaxMerged
            /\ mVolSent' = mVolSent + 1
            /\ mVol' = Append(mVol, [src |-> src, id |-> mVolSent + 1, val |-> val])
            /\ UNCHANGED <<mSc, mScSent>>
    /\ UNCHANGED <<mScEnded, mVolEnded, mScFused, mVolFused, mOut, mLast>>
    /\ UNCHANGED notMerge

\* the sender of one source is dropped: its try_recv reports Disconnected
\* once the channel is empty
MergeEnd(src) ==
    /\ IF src = "sound_core"
       THEN ~mScEnded /\ mScEnded' = TRUE /\ UNCHANGED mVolEnded
       ELSE ~mVolEnded /\ mVolEnded' = TRUE /\ UNCHANGED mScEnded
    /\ UNCHANGED <<mSc, mVol, mScSent, mVolSent, mScFused, mVolFused, mOut, mLast>>
    /\ UNCHANGED notMerge

\* one poll_next of SoundCoreAndVolumeEvents, made by next() of the iterator:
\* Ready(Some) is returned by next(), Pending sends it to park
MergePoll ==
    /\ LET sc == SourcePoll(mSc, mScEnded, mScFused)
           vol == SourcePoll(mVol, mVolEnded, mVolFused)
           take == Preferred(sc = "Some", vol = "Some")
           seen == [scReady |-> sc = "Some", volReady |-> vol = "Some",
                    scHead |-> IF sc = "Some" THEN Head(mSc).id ELSE 0]
       IN CASE take = "sound_core" ->
                   /\ mSc' = Tail(mSc)
                   /\ mOut' = Append(mOut, Head(mSc))
                   /\ mLast' = [scReady |-> seen.scReady, volReady |-> seen.volReady,
                                scHead |-> seen.scHead, ret |-> "Some",
                                src |-> "sound_core", id |-> Head(mSc).id]
                   /\ UNCHANGED <<mVol, mScFused, mVolFused>>
            [] take = "volume" ->
                   /\ mVol' = Tail(mVol)
                   /\ mOut' = Append(mOut, Head(mVol))
                   /\ mScFused' = (mScFused \/ sc = "None")
                   /\ mLast' = [scReady |-> seen.scReady, volReady |-> seen.volReady,
                                scHead |-> seen.scHead, ret |-> "Some",
                                src |-> "volume", id |-> Head(mVol).id]
                   /\ UNCHANGED <<mSc, mVolFused>>
            [] take = "none" ->
                   /\ mScFused' = (mScFused \/ sc = "None")
                   /\ mVolFused' = (mVolFused \/ vol = "None")
                   /\ mLast' = [scReady |-> seen.scReady, volReady |-> seen.volReady,
                                scHead |-> seen.scHead, ret |-> "Pending",
                                src |-> "none", id |-> 0]
                   /\ UNCHANGED <<mSc, mVol, mOut>>
    /\ UNCHANGED <<mScSent, mVolSent, mScEnded, mVolEnded>>
    /\ UNCHANGED notMerge

MergeNext ==
    \/ \E src \in {"sound_core", "volume"}, val \in {"item", "err"} : MergeSend(src, val)
    \/ \E src \in {"sound_core", "volume"} : MergeEnd(src)
    \/ MergePoll

InitMerge == MergeFresh /\ ComParked /\ CbParked /\ BrParked /\ ItParked /\ CurParked
                 /\ ParParked /\ SetParked /\ RootParked /\ CoParked

SpecMerge == InitMerge /\ [][MergeNext]_vars

\* the ids of the items of one source among those returned, in order
IdsFrom(src) ==
    LET from(x) == x.src = src
        sub == SelectSeq(mOut, from)
    IN [i \in 1..Len(sub) |-> sub[i].id]

\* C40: a poll of the merged stream returns the oldest SoundCore item whenever
\* one is ready, also when a volume item is ready too; otherwise the oldest
\* volume item when one is ready; otherwise Pending, and never the end of the
\* stream, not even when both sources have ended: next() of the blocking
\* iterator never returns None. The items of each source are returned in the
\* order they were delivered.
C40_SoundCoreFirstNeverEnds ==
    /\ mLast.ret \in {"none", "Some", "Pending"}
    /\ mLast.scReady =>
           (mLast.ret = "Some" /\ mLast.src = "sound_core" /\ mLast.id = mLast.scHead)
    /\ (~mLast.scReady /\ mLast.volReady) =>
           (mLast.ret = "Some" /\ mLast.src = "volume")
    /\ mLast.ret = "Pending" => (~mLast.scReady /\ ~mLast.volReady)
    /\ (mScFused /\ mVolFused) => (mScEnded /\ mVolEnded /\ mLast.ret = "Pending")
    /\ IdsFrom("sound_core") = [i \in 1..(mScSent - Len(mSc)) |-> i]
    /\ IdsFrom("volume") = [i \in 1..(mVolSent - Len(mVol)) |-> i]

\* both sources had an item ready and the poll returned the SoundCore one,
\* after a volume item had been returned earlier
C40_Witness ==
    /\ mLast.scReady /\ mLast.volReady
    /\ mLast.src = "sound_core"
    /\ Len(mOut) = 2
    /\ mOut[1].src = "volume"
    /\ mVol # <<>>

====
